---- MODULE Spec2Model ----
(***************************************************************************)
(* task2habitica: two-way synchronisation of Taskwarrior tasks (local)     *)
(* with Habitica tasks (remote).  The module models the task algebra, the  *)
(* two converters, the conflict resolver with its remote operations, and   *)
(* the sync command, the stats cache and the add and modify hooks.         *)
(*                                                                         *)
(* Conventions.  An Option<T> is a set with at most one element: None is   *)
(* {} and Some(x) is {x}.  Timestamps are positive integers.  A priority   *)
(* (f64) is an integer number of thousandths (1.5 is 1500).  A note text   *)
(* is a sequence of lines; the empty string is << >>.                      *)
(***************************************************************************)
EXTENDS Integers, Sequences, FiniteSets, TLC

VARIABLES
    call,       \* the last library operation applied: its inputs and its result
    pc,         \* position of the sync command
    tw_db,      \* Taskwarrior's database: uuid -> Option<Task>
    habitica,   \* the tasks Habitica holds when the run starts: id -> Option<HabiticaTask>
    note_files, \* the note store: uuid -> Option<note text>
    run,        \* the locals of handle_sync and what the run did so far
    stats_cache_file \* the file at stats_cache_path: Option<StatsCache>

vars == <<call, pc, tw_db, habitica, note_files, run, stats_cache_file>>

-----------------------------------------------------------------------------
(* Bounds of the model *)

MaxTime == 2
MaxId == 2
MaxUuid == 4

-----------------------------------------------------------------------------
(* Option<T> *)

None == {}
Some(x) == {x}
IsSome(o) == o # {}
Unwrap(o) == CHOOSE x \in o : TRUE
Opt(S) == {None} \cup {Some(x) : x \in S}

Times == 1..MaxTime
Ids == 1..MaxId
Uuids == 1..MaxUuid

-----------------------------------------------------------------------------
(* taskwarrior/task.rs *)

TaskStatus == {"pending", "waiting", "completed", "deleted", "recurring"}
TaskDifficulty == {"trivial", "easy", "medium", "hard"}
TaskType == {"todo", "daily", "habit", "reward"}

\* Mutant: Recurring tasks are taken to be synced
should_sync_to_habitica_KeepsRecurring(status) == status # "deleted"

should_sync_to_habitica(status) == status \in {"pending", "waiting", "completed"}

is_completed(status) == status = "completed"

to_habitica_priority(d) ==
    CASE d = "trivial" -> 100
      [] d = "easy" -> 1000
      [] d = "medium" -> 1500
      [] d = "hard" -> 2000

Abs(x) == IF x < 0 THEN -x ELSE x

\* Mutant: the Medium bucket is not recognised
from_habitica_priority_NoMedium(priority) ==
    IF Abs(priority - 100) < 10 THEN "trivial"
    ELSE IF Abs(priority - 1000) < 10 THEN "easy"
    ELSE "hard"

from_habitica_priority(priority) ==
    IF Abs(priority - 100) < 10 THEN "trivial"
    ELSE IF Abs(priority - 1000) < 10 THEN "easy"
    ELSE IF Abs(priority - 1500) < 10 THEN "medium"
    ELSE "hard"

\* Task::modified_or_now: `now` is the clock value this call would read
tw_modified_or_now(task, now) == IF IsSome(task.modified) THEN Unwrap(task.modified) ELSE now

\* Task::difficulty: unwrap_or_default, the default being Easy
difficulty(task) ==
    IF IsSome(task.habitica_difficulty) THEN Unwrap(task.habitica_difficulty) ELSE "easy"

\* Task::task_type: unwrap_or_default, the default being Todo
task_type(task) ==
    IF IsSome(task.habitica_task_type) THEN Unwrap(task.habitica_task_type) ELSE "todo"

\* An annotation is [entry, prefixed, text]: its description is the note
\* prefix followed by text when prefixed, and text alone otherwise.
filter_note_annotations(task) ==
    IF IsSome(task.annotations)
    THEN LET NotNote(a) == ~a.prefixed IN SelectSeq(Unwrap(task.annotations), NotNote)
    ELSE << >>

-----------------------------------------------------------------------------
(* habitica/task.rs *)

HabiticaTaskType == {"todo", "daily", "habit", "reward"}

\* Mutant: a daily is judged by its completed flag alone
effective_status_IgnoresDue(h) ==
    IF h.completed THEN "completed" ELSE "pending"

effective_status(h) ==
    IF h.task_type = "daily"
    THEN IF ~h.completed /\ h.is_due THEN "pending" ELSE "completed"
    ELSE IF h.completed THEN "completed" ELSE "pending"

\* Mutant: a remote task without timestamp reads as the oldest
h_modified_or_now_Epoch(h, now) == IF IsSome(h.updated_at) THEN Unwrap(h.updated_at) ELSE 0

h_modified_or_now(h, now) == IF IsSome(h.updated_at) THEN Unwrap(h.updated_at) ELSE now

-----------------------------------------------------------------------------
(* sync/converter.rs *)

\* TaskType -> HabiticaTaskType as taskwarrior_to_habitica maps it
ToHabiticaTypeOnPush(t) ==
    CASE t = "todo" -> "todo"
      [] t = "daily" -> "daily"
      [] OTHER -> "todo"

\* Mutant: a Waiting task is converted as a completed one
taskwarrior_to_habitica_WaitingDone(tw_task, note_content) ==
    IF ~should_sync_to_habitica(tw_task.status) THEN None
    ELSE IF tw_task.status \in {"deleted", "recurring"} THEN None
    ELSE Some([ id |-> tw_task.habitica_uuid,
                text |-> tw_task.description,
                notes |-> IF IsSome(note_content) THEN Unwrap(note_content) ELSE << >>,
                task_type |-> ToHabiticaTypeOnPush(task_type(tw_task)),
                priority |-> to_habitica_priority(difficulty(tw_task)),
                completed |-> (tw_task.status \in {"completed", "waiting"}),
                date |-> tw_task.due,
                updated_at |-> tw_task.modified,
                is_due |-> FALSE ])

\* Returns Option<HabiticaTask>; note_content is Option<note text>
taskwarrior_to_habitica(tw_task, note_content) ==
    IF ~should_sync_to_habitica(tw_task.status) THEN None
    ELSE IF tw_task.status \in {"deleted", "recurring"} THEN None
    ELSE Some([ id |-> tw_task.habitica_uuid,
                text |-> tw_task.description,
                notes |-> IF IsSome(note_content) THEN Unwrap(note_content) ELSE << >>,
                task_type |-> ToHabiticaTypeOnPush(task_type(tw_task)),
                priority |-> to_habitica_priority(difficulty(tw_task)),
                completed |-> (tw_task.status = "completed"),
                date |-> tw_task.due,
                updated_at |-> tw_task.modified,
                is_due |-> FALSE ])

\* HabiticaTaskType -> TaskType as habitica_to_taskwarrior maps it
ToTaskType(t) ==
    CASE t = "todo" -> "todo"
      [] t = "daily" -> "daily"
      [] t = "habit" -> "habit"
      [] t = "reward" -> "reward"

\* Mutant: the converted task does not carry the remote id
habitica_to_taskwarrior_NoId(h_task, existing_tw_task, fresh) ==
    [ uuid |-> IF IsSome(existing_tw_task) THEN Unwrap(existing_tw_task).uuid ELSE fresh,
      description |-> h_task.text,
      status |-> IF effective_status(h_task) = "pending" THEN "pending" ELSE "completed",
      modified |-> h_task.updated_at,
      due |-> h_task.date,
      annotations |-> None,
      habitica_uuid |-> None,
      habitica_difficulty |-> Some(from_habitica_priority(h_task.priority)),
      habitica_task_type |-> Some(ToTaskType(h_task.task_type)),
      extra |-> {} ]

\* existing_tw_task is Option<Task>; fresh is the uuid Uuid::new_v4 draws
habitica_to_taskwarrior(h_task, existing_tw_task, fresh) ==
    LET status == IF effective_status(h_task) = "pending" THEN "pending" ELSE "completed"
        existing == Unwrap(existing_tw_task)
    IN  [ uuid |-> IF IsSome(existing_tw_task) THEN existing.uuid ELSE fresh,
          description |-> h_task.text,
          status |-> status,
          modified |-> h_task.updated_at,
          due |-> h_task.date,
          annotations |-> IF IsSome(existing_tw_task) THEN existing.annotations ELSE None,
          habitica_uuid |-> h_task.id,
          habitica_difficulty |-> Some(from_habitica_priority(h_task.priority)),
          habitica_task_type |-> Some(ToTaskType(h_task.task_type)),
          extra |-> IF IsSome(existing_tw_task) THEN existing.extra ELSE {} ]

update_taskwarrior_from_habitica(tw_task, h_task) ==
    [ tw_task EXCEPT
        !.description = h_task.text,
        !.due = h_task.date,
        !.modified = h_task.updated_at,
        !.habitica_uuid = h_task.id,
        !.habitica_difficulty = Some(from_habitica_priority(h_task.priority)),
        !.habitica_task_type = Some(ToTaskType(h_task.task_type)),
        !.status = IF effective_status(h_task) = "pending"
                   THEN (IF tw_task.status = "waiting" THEN "waiting" ELSE "pending")
                   ELSE "completed" ]

\* TaskType -> HabiticaTaskType as tasks_are_equivalent maps it
ToHabiticaTypeOnCompare(t) ==
    CASE t = "todo" -> "todo"
      [] t = "daily" -> "daily"
      [] t = "habit" -> "habit"
      [] t = "reward" -> "reward"

tasks_are_equivalent(tw_task, h_task) ==
    IF tw_task.description # h_task.text THEN FALSE
    ELSE IF tw_task.due # h_task.date THEN FALSE
    ELSE IF to_habitica_priority(difficulty(tw_task)) # h_task.priority THEN FALSE
    ELSE IF ToHabiticaTypeOnCompare(task_type(tw_task)) # h_task.task_type THEN FALSE
    ELSE IF is_completed(tw_task.status) # h_task.completed THEN FALSE
    ELSE IF tw_task.habitica_uuid # h_task.id THEN FALSE
    ELSE TRUE

-----------------------------------------------------------------------------
(* taskwarrior/notes.rs.  The note store maps a task uuid to the text of   *)
(* its note file (None: no file).  io_ok says whether the file system      *)
(* serves the accesses of this operation; an access that touches no file   *)
(* cannot fail.                                                            *)

\* str::trim on one line, over the lines the model uses
Trim(line) ==
    CASE line = " " -> ""
      [] line = " n" -> "n"
      [] OTHER -> line

\* content.trim().is_empty()
IsBlankText(content) == \A i \in 1..Len(content) : Trim(content[i]) = ""

\* content.lines().next().unwrap_or("").trim()
FirstLine(content) == IF Len(content) = 0 THEN "" ELSE Trim(content[1])

read_note(files, task, io_ok) ==
    IF IsSome(files[task.uuid])
    THEN [ok |-> io_ok, value |-> files[task.uuid]]
    ELSE [ok |-> TRUE, value |-> None]

write_note(files, task, content, io_ok) ==
    IF io_ok
    THEN [ok |-> TRUE, files |-> [files EXCEPT ![task.uuid] = Some(content)]]
    ELSE [ok |-> FALSE, files |-> files]

delete_note(files, task, io_ok) ==
    IF IsSome(files[task.uuid])
    THEN IF io_ok THEN [ok |-> TRUE, files |-> [files EXCEPT ![task.uuid] = None]]
                  ELSE [ok |-> FALSE, files |-> files]
    ELSE [ok |-> TRUE, files |-> files]

\* Mutant: the note annotation is added after the annotations kept
sync_note_to_annotation_Appends(task, note_content, now) ==
    LET kept == filter_note_annotations(task)
        content == Unwrap(note_content)
        annotations ==
            IF IsSome(note_content) /\ ~IsBlankText(content) /\ FirstLine(content) # ""
            THEN kept \o <<[entry |-> now, prefixed |-> TRUE, text |-> FirstLine(content)]>>
            ELSE kept
    IN  [task EXCEPT !.annotations = IF annotations = << >> THEN None ELSE Some(annotations)]

\* note_content is Option<note text>; now is the clock value stamped on the annotation
sync_note_to_annotation(task, note_content, now) ==
    LET kept == filter_note_annotations(task)
        content == Unwrap(note_content)
        annotations ==
            IF IsSome(note_content) /\ ~IsBlankText(content) /\ FirstLine(content) # ""
            THEN <<[entry |-> now, prefixed |-> TRUE, text |-> FirstLine(content)]>> \o kept
            ELSE kept
    IN  [task EXCEPT !.annotations = IF annotations = << >> THEN None ELSE Some(annotations)]

import_note_from_habitica(files, task, note_content, now, io_ok) ==
    IF IsBlankText(note_content)
    THEN LET d == delete_note(files, task, io_ok)
         IN  IF ~d.ok THEN [ok |-> FALSE, task |-> task, files |-> d.files]
             ELSE [ok |-> TRUE, task |-> sync_note_to_annotation(task, None, now),
                   files |-> d.files]
    ELSE LET w == write_note(files, task, note_content, io_ok)
         IN  IF ~w.ok THEN [ok |-> FALSE, task |-> task, files |-> w.files]
             ELSE [ok |-> TRUE,
                   task |-> sync_note_to_annotation(task, Some(note_content), now),
                   files |-> w.files]

-----------------------------------------------------------------------------
(* habitica/stats.rs: StatsCache.  stats_cache below is Option<StatsCache> *)

StatsCacheNew(stats) == [old |-> stats, current |-> None, drops |-> << >>]

\* Mutant: an update without stats erases the stats recorded before
StatsCacheUpdate_Erases(cache, stats, drop_message) ==
    [ old |-> cache.old,
      current |-> stats,
      drops |-> IF IsSome(drop_message)
                THEN Append(cache.drops, Unwrap(drop_message))
                ELSE cache.drops ]

\* StatsCache::update; stats is Option<UserStats>, drop_message is Option<String>
StatsCacheUpdate(cache, stats, drop_message) ==
    [ old |-> cache.old,
      current |-> IF IsSome(stats) THEN stats ELSE cache.current,
      drops |-> IF IsSome(drop_message)
                THEN Append(cache.drops, Unwrap(drop_message))
                ELSE cache.drops ]

\* if let Some(cache) = stats_cache { cache.update(..) }
UpdateIfSome(stats_cache, stats, drop_message) ==
    IF IsSome(stats_cache)
    THEN Some(StatsCacheUpdate(Unwrap(stats_cache), stats, drop_message))
    ELSE None

\* format!("{:.2}", v), for v in hundredths
FormatFixed2(v) == [decimals |-> 2, value |-> v]

\* f64::round (half away from zero) as i32, for v in hundredths
RoundToI32(v) == IF v >= 0 THEN (v + 50) \div 100 ELSE -((50 - v) \div 100)

\* format!("{}", v.round() as i32)
FormatRounded(v) == [decimals |-> 0, value |-> RoundToI32(v)]

\* Mutant: a difference is shown from 0.02 on
format_stat_diff_From2(name, old_val, new_val, max_val) ==
    IF Abs(new_val - old_val) < 2 THEN None
    ELSE Some([ kind |-> "stat", name |-> name,
                dir |-> IF new_val - old_val > 0 THEN "+" ELSE "-",
                diff |-> IF Abs(new_val - old_val) < 100
                         THEN FormatFixed2(Abs(new_val - old_val))
                         ELSE FormatRounded(Abs(new_val - old_val)),
                new |-> IF new_val < 100 THEN FormatFixed2(new_val)
                        ELSE FormatRounded(new_val),
                max |-> max_val ])

\* StatsCache::format_stat_diff; old_val and new_val in hundredths, max_val
\* is Option<integer>.  The line "name:dir diff (new/max)" is the record of
\* its parts; max is None on a line "name:dir diff (new)".
format_stat_diff(name, old_val, new_val, max_val) ==
    LET diff == new_val - old_val
        dir == IF diff > 0 THEN "+" ELSE "-"
        abs_diff == Abs(diff)
        diff_str == IF abs_diff < 100 THEN FormatFixed2(abs_diff) ELSE FormatRounded(abs_diff)
        new_str == IF new_val < 100 THEN FormatFixed2(new_val) ELSE FormatRounded(new_val)
    IN  IF Abs(diff) < 1 THEN None
        ELSE Some([ kind |-> "stat", name |-> name, dir |-> dir, diff |-> diff_str,
                    new |-> new_str, max |-> max_val ])

\* The line "LEVEL UP! (old -> new)" or "LEVEL LOST! (old -> new)"
LevelLine(kind, old_lvl, new_lvl) == [kind |-> kind, old |-> old_lvl, new |-> new_lvl]

\* A drop message as a line of the output
DropLine(msg) == [kind |-> "drop", text |-> msg]

\* self.drops.clone() as lines of the output
DropLines(drops) == [j \in DOMAIN drops |-> DropLine(drops[j])]

\* if let Some(msg) = .. { messages.push(msg) }
PushIfSome(msg) == IF IsSome(msg) THEN <<Unwrap(msg)>> ELSE << >>

\* Mutant: the Exp line is shown whatever the level does
ExpLine_Always(cache, new, lvl_diff) ==
    PushIfSome(format_stat_diff("Exp", cache.old.exp, new.exp, new.to_next_level))

\* The Exp line of get_diff_messages (lines 93-102)
ExpLine(cache, new, lvl_diff) ==
    IF lvl_diff = 0
    THEN PushIfSome(format_stat_diff("Exp", cache.old.exp, new.exp, new.to_next_level))
    ELSE << >>

\* StatsCache::get_diff_messages
get_diff_messages(cache) ==
    IF ~IsSome(cache.current) THEN DropLines(cache.drops)
    ELSE LET new == Unwrap(cache.current)
             lvl_diff == new.lvl - cache.old.lvl
             level == IF lvl_diff > 0
                      THEN <<LevelLine("LEVEL UP!", cache.old.lvl, new.lvl)>>
                      ELSE IF lvl_diff < 0
                      THEN <<LevelLine("LEVEL LOST!", cache.old.lvl, new.lvl)>>
                      ELSE << >>
             hp == PushIfSome(format_stat_diff("HP", cache.old.hp, new.hp, new.max_hp))
             mp == PushIfSome(format_stat_diff("MP", cache.old.mp, new.mp, new.max_mp))
             exp == ExpLine(cache, new, lvl_diff)
             gold == PushIfSome(format_stat_diff("Gold", cache.old.gp, new.gp, None))
         IN  level \o hp \o mp \o exp \o gold \o DropLines(cache.drops)

-----------------------------------------------------------------------------
(* habitica/client.rs.  resp is what the service answers to the request:   *)
(* [status, new_id, stats, drop].  status is "ok" (2xx, success:true, data *)
(* present), "not_found" (404), "http_error" (another non-2xx status),     *)
(* "success_false" or "no_data" (2xx, success:true, no data).  Each        *)
(* function returns the Result and the call it issued, with the stats and  *)
(* the drop message the answer carried.                                    *)

ApiCall(kind, id, direction, body, resp) ==
    [ kind |-> kind, id |-> id, direction |-> direction, body |-> body,
      status |-> resp.status, answer |-> [stats |-> resp.stats, drop |-> resp.drop] ]

create_task(task, resp) ==
    [ ok |-> resp.status = "ok",
      task |-> [task EXCEPT !.id = Some(resp.new_id)],
      stats |-> resp.stats,
      drop |-> resp.drop,
      call |-> ApiCall("create", None, "none", Some(task), resp) ]

update_task(task_id, task, resp) ==
    [ ok |-> resp.status = "ok",
      task |-> [task EXCEPT !.id = Some(task_id)],
      stats |-> resp.stats,
      drop |-> resp.drop,
      call |-> ApiCall("update", Some(task_id), "none", Some(task), resp) ]

delete_task(task_id, resp) ==
    [ ok |-> resp.status \in {"ok", "not_found", "no_data"},
      call |-> ApiCall("delete", Some(task_id), "none", None, resp) ]

\* Mutant: a 404 answer to a scoring call is an error
score_task_NotFoundFails(task_id, direction, resp) ==
    [ ok |-> resp.status = "ok",
      stats |-> IF resp.status = "ok" THEN resp.stats ELSE None,
      drop |-> IF resp.status = "ok" THEN resp.drop ELSE None,
      call |-> ApiCall("score", Some(task_id), direction, None, resp) ]

score_task(task_id, direction, resp) ==
    [ ok |-> resp.status \in {"ok", "not_found"},
      stats |-> IF resp.status = "ok" THEN resp.stats ELSE None,
      drop |-> IF resp.status = "ok" THEN resp.drop ELSE None,
      call |-> ApiCall("score", Some(task_id), direction, None, resp) ]

-----------------------------------------------------------------------------
(* sync/resolver.rs.  An operation returns [ok, task, cache, calls, files]: *)
(* the Result (task is meaningful when ok), the stats cache it was lent,   *)
(* the remote calls it issued in order, and the note store it leaves.      *)

\* Mutant: a tie goes to the remote side
resolve_TieToRemote(tw_task, h_task, now_tw, now_h) ==
    IF tasks_are_equivalent(tw_task, h_task) THEN "NoChange"
    ELSE IF h_modified_or_now(h_task, now_h) >= tw_modified_or_now(tw_task, now_tw)
         THEN "UseHabitica"
         ELSE "UseTaskwarrior"

\* now_tw and now_h are the two clock reads, in this order
resolve(tw_task, h_task, now_tw, now_h) ==
    IF tasks_are_equivalent(tw_task, h_task) THEN "NoChange"
    ELSE IF h_modified_or_now(h_task, now_h) > tw_modified_or_now(tw_task, now_tw)
         THEN "UseHabitica"
         ELSE "UseTaskwarrior"

\* Mutant: the scoring call goes to the id the task was sent with
PushScoreTarget_SentId(h_task, returned_h_task) == h_task.id

\* The target of the scoring call push_to_habitica issues
PushScoreTarget(h_task, returned_h_task) == returned_h_task.id

\* Mutant: the id the remote assigned is not written back
PushWriteBack_Dropped(h_task, returned_h_task) == h_task.id

\* The uuid push_to_habitica writes back
PushWriteBack(h_task, returned_h_task) == returned_h_task.id

push_to_habitica(tw_task, stats_cache, files, io_ok, resps) ==
    LET note == read_note(files, tw_task, io_ok)
        h_task_opt == taskwarrior_to_habitica(tw_task, note.value)
        h_task == Unwrap(h_task_opt)
        r1 == IF IsSome(h_task.id)
              THEN update_task(Unwrap(h_task.id), h_task, resps[1])
              ELSE create_task(h_task, resps[1])
        updated_tw_task == [tw_task EXCEPT !.habitica_uuid = PushWriteBack(h_task, r1.task)]
        cache1 == UpdateIfSome(stats_cache, r1.stats, r1.drop)
        target == PushScoreTarget(h_task, r1.task)
        r2 == score_task(Unwrap(target), "up", resps[2])
    IN  IF ~note.ok
        THEN [ok |-> FALSE, task |-> tw_task, cache |-> stats_cache, calls |-> << >>,
              files |-> files]
        ELSE IF ~IsSome(h_task_opt)
        THEN [ok |-> TRUE, task |-> tw_task, cache |-> stats_cache, calls |-> << >>,
              files |-> files]
        ELSE IF ~r1.ok
        THEN [ok |-> FALSE, task |-> tw_task, cache |-> stats_cache, calls |-> <<r1.call>>,
              files |-> files]
        ELSE IF is_completed(tw_task.status) /\ IsSome(r1.task.id) /\ IsSome(target)
        THEN IF ~r2.ok
             THEN [ok |-> FALSE, task |-> tw_task, cache |-> cache1,
                   calls |-> <<r1.call, r2.call>>, files |-> files]
             ELSE [ok |-> TRUE, task |-> updated_tw_task,
                   cache |-> UpdateIfSome(cache1, r2.stats, r2.drop),
                   calls |-> <<r1.call, r2.call>>, files |-> files]
        ELSE [ok |-> TRUE, task |-> updated_tw_task, cache |-> cache1,
              calls |-> <<r1.call>>, files |-> files]

\* existing_tw is Option<Task>; env is [fresh, now, io_ok]
pull_from_habitica(h_task, existing_tw, files, env) ==
    LET tw_task == habitica_to_taskwarrior(h_task, existing_tw, env.fresh)
        imp == import_note_from_habitica(files, tw_task, h_task.notes, env.now, env.io_ok)
    IN  [ok |-> imp.ok, task |-> imp.task, cache |-> None, calls |-> << >>,
         files |-> imp.files]

\* Mutant: the two directions are swapped
ScoreDirectionOf_Swapped(old_completed, new_completed) ==
    IF ~old_completed /\ new_completed THEN Some("down")
    ELSE IF old_completed /\ ~new_completed THEN Some("up")
    ELSE None

\* Option<ScoreDirection> of handle_status_change
ScoreDirectionOf(old_completed, new_completed) ==
    IF ~old_completed /\ new_completed THEN Some("up")
    ELSE IF old_completed /\ ~new_completed THEN Some("down")
    ELSE None

handle_status_change(old_tw, new_tw, stats_cache, files, resp) ==
    LET score_direction ==
            ScoreDirectionOf(is_completed(old_tw.status), is_completed(new_tw.status))
        r == score_task(Unwrap(new_tw.habitica_uuid), Unwrap(score_direction), resp)
    IN  IF IsSome(score_direction) /\ IsSome(new_tw.habitica_uuid)
        THEN IF ~r.ok
             THEN [ok |-> FALSE, task |-> new_tw, cache |-> stats_cache,
                   calls |-> <<r.call>>, files |-> files]
             ELSE [ok |-> TRUE, task |-> new_tw,
                   cache |-> UpdateIfSome(stats_cache, r.stats, r.drop),
                   calls |-> <<r.call>>, files |-> files]
        ELSE [ok |-> TRUE, task |-> new_tw, cache |-> stats_cache, calls |-> << >>,
              files |-> files]

modify_on_habitica(old_tw, new_tw, stats_cache, files, io_ok, resps) ==
    LET d == delete_task(Unwrap(old_tw.habitica_uuid), resps[1])
        note == read_note(files, new_tw, io_ok)
        new_h_opt == taskwarrior_to_habitica(new_tw, note.value)
        new_h == Unwrap(new_h_opt)
        u == update_task(Unwrap(new_h.id), new_h, resps[1])
        cache1 == UpdateIfSome(stats_cache, u.stats, u.drop)
        after_update == handle_status_change(old_tw, new_tw, cache1, files, resps[2])
        no_update == handle_status_change(old_tw, new_tw, stats_cache, files, resps[1])
    IN  IF ~should_sync_to_habitica(new_tw.status) /\ IsSome(old_tw.habitica_uuid)
        THEN [ok |-> d.ok, task |-> [new_tw EXCEPT !.habitica_uuid = None],
              cache |-> stats_cache, calls |-> <<d.call>>, files |-> files]
        ELSE IF should_sync_to_habitica(new_tw.status)
                /\ ~should_sync_to_habitica(old_tw.status)
        THEN push_to_habitica(new_tw, stats_cache, files, io_ok, resps)
        ELSE IF ~note.ok
        THEN [ok |-> FALSE, task |-> new_tw, cache |-> stats_cache, calls |-> << >>,
              files |-> files]
        ELSE IF IsSome(new_h_opt)
        THEN IF IsSome(new_h.id)
             THEN IF ~u.ok
                  THEN [ok |-> FALSE, task |-> new_tw, cache |-> stats_cache,
                        calls |-> <<u.call>>, files |-> files]
                  ELSE [after_update EXCEPT !.calls = <<u.call>> \o after_update.calls]
             ELSE no_update
        ELSE [ok |-> TRUE, task |-> new_tw, cache |-> stats_cache, calls |-> << >>,
              files |-> files]

-----------------------------------------------------------------------------
(* Values the operations are applied to *)

Task(uuid, description, status, modified, due, annotations, h_uuid, h_difficulty, h_type, extra) ==
    [ uuid |-> uuid, description |-> description, status |-> status,
      modified |-> modified, due |-> due, annotations |-> annotations,
      habitica_uuid |-> h_uuid, habitica_difficulty |-> h_difficulty,
      habitica_task_type |-> h_type, extra |-> extra ]

HabiticaTask(id, text, notes, type, priority, completed, date, updated_at, is_due) ==
    [ id |-> id, text |-> text, notes |-> notes, task_type |-> type,
      priority |-> priority, completed |-> completed, date |-> date,
      updated_at |-> updated_at, is_due |-> is_due ]

NoteTexts == {<< >>, <<" ">>, <<"n">>, <<"", "n">>}

PlainAnnotation == [entry |-> 1, prefixed |-> FALSE, text |-> "p"]
NoteAnnotation == [entry |-> 1, prefixed |-> TRUE, text |-> "n"]
AnnotationLists ==
    {None, Some(<<PlainAnnotation>>), Some(<<PlainAnnotation, NoteAnnotation>>)}

\* The state of the sync command while only library operations are applied
SyncIdle ==
    /\ pc = "idle"
    /\ tw_db = << >>
    /\ habitica = << >>
    /\ note_files = << >>
    /\ run = << >>
    /\ stats_cache_file = None

-----------------------------------------------------------------------------
(* SpecConv: the resolver's decision and the two converters, applied to    *)
(* every pair of the sets below.                                           *)

ResolveLocals ==
    { Task(1, "a", st, m, None, None, Some(1), d, t, {}) :
        st \in TaskStatus, m \in Opt(Times),
        d \in {None, Some("hard")}, t \in {None, Some("daily")} }

ResolveRemotes ==
    { HabiticaTask(Some(i), x, << >>, t, p, c, None, m, FALSE) :
        i \in Ids, x \in {"a", "b"}, t \in {"todo", "daily"}, p \in {1000, 2000},
        c \in BOOLEAN, m \in Opt(Times) }

ConvertLocals ==
    { Task(1, x, st, m, due, None, i, d, t, {}) :
        x \in {"a", "b"}, st \in TaskStatus, m \in Opt({1}), due \in Opt({1}),
        i \in Opt(Ids), d \in Opt(TaskDifficulty), t \in Opt(TaskType) }

PullRemotes ==
    { HabiticaTask(Some(1), "a", n, t, p, c, None, Some(1), due) :
        n \in NoteTexts, t \in HabiticaTaskType, p \in {1000, 1200, 1500},
        c \in BOOLEAN, due \in BOOLEAN }

PullExisting ==
    {None} \cup
    { Some(Task(1, "b", st, Some(1), None, an, Some(1), Some("easy"), Some("todo"), e)) :
        st \in TaskStatus, an \in AnnotationLists, e \in {{}, {"k"}} }

\* Each behaviour applies one operation to one input
InitConv ==
    /\ call = [op |-> "none"]
    /\ SyncIdle

\* ConflictResolver::resolve on one pair.  The clock is read for a side only
\* when that side carries no timestamp and the pair is not equivalent; the
\* local side is read first, so the second read is not earlier.
ApplyResolve ==
    /\ call.op = "none"
    /\ \E tw \in ResolveLocals, h \in ResolveRemotes, now_tw \in Times, now_h \in Times :
        /\ now_tw <= now_h
        /\ call' = [ op |-> "resolve", tw |-> tw, h |-> h,
                     now_tw |-> IF tasks_are_equivalent(tw, h) \/ IsSome(tw.modified)
                                THEN None ELSE Some(now_tw),
                     now_h |-> IF tasks_are_equivalent(tw, h) \/ IsSome(h.updated_at)
                               THEN None ELSE Some(now_h),
                     result |-> resolve(tw, h, now_tw, now_h) ]
    /\ UNCHANGED <<pc, tw_db, habitica, note_files, run, stats_cache_file>>

\* ConflictResolver::resolve evaluated twice on one pair, the second
\* evaluation after the first: four clock reads in this order, each kept
\* only if its evaluation makes it
ApplyResolveTwice ==
    /\ call.op = "none"
    /\ \E tw \in ResolveLocals, h \in ResolveRemotes,
          now1 \in Times, now2 \in Times, now3 \in Times, now4 \in Times :
        /\ now1 <= now2 /\ now2 <= now3 /\ now3 <= now4
        /\ LET reads_tw == ~tasks_are_equivalent(tw, h) /\ ~IsSome(tw.modified)
               reads_h == ~tasks_are_equivalent(tw, h) /\ ~IsSome(h.updated_at)
           IN  call' = [ op |-> "resolve_twice", tw |-> tw, h |-> h,
                         reads |-> << IF reads_tw THEN Some(now1) ELSE None,
                                      IF reads_h THEN Some(now2) ELSE None,
                                      IF reads_tw THEN Some(now3) ELSE None,
                                      IF reads_h THEN Some(now4) ELSE None >>,
                         first |-> resolve(tw, h, now1, now2),
                         second |-> resolve(tw, h, now3, now4) ]
    /\ UNCHANGED <<pc, tw_db, habitica, note_files, run, stats_cache_file>>

\* converter::taskwarrior_to_habitica on one task and the content of its note
ApplyToHabitica ==
    /\ call.op = "none"
    /\ \E tw \in ConvertLocals, note \in Opt({<< >>, <<"n">>}) :
        call' = [ op |-> "to_habitica", tw |-> tw, note |-> note,
                  result |-> taskwarrior_to_habitica(tw, note) ]
    /\ UNCHANGED <<pc, tw_db, habitica, note_files, run, stats_cache_file>>

\* ConflictResolver::pull_from_habitica on one remote task, with or without
\* an existing local task, over a note store holding at most that task's note
ApplyPull ==
    /\ call.op = "none"
    /\ \E h \in PullRemotes, existing \in PullExisting, file \in Opt({<<"n">>}),
          fresh \in Uuids, io_ok \in BOOLEAN :
        LET files == [u \in Uuids |-> IF u = 1 THEN file ELSE None]
            env == [fresh |-> IF IsSome(existing) THEN 1 ELSE fresh, now |-> MaxTime,
                    io_ok |-> io_ok]
        IN  call' = [ op |-> "pull", h |-> h, existing |-> existing, files |-> files,
                      env |-> env, result |-> pull_from_habitica(h, existing, files, env) ]
    /\ UNCHANGED <<pc, tw_db, habitica, note_files, run, stats_cache_file>>

\* The remote tasks effective_status is applied to
StatusRemotes ==
    { HabiticaTask(Some(1), "a", << >>, t, 1000, c, None, Some(1), due) :
        t \in HabiticaTaskType, c \in BOOLEAN, due \in BOOLEAN }

\* HabiticaTask::effective_status on one remote task
ApplyEffectiveStatus ==
    /\ call.op = "none"
    /\ \E h \in StatusRemotes :
        call' = [op |-> "effective_status", h |-> h, result |-> effective_status(h)]
    /\ UNCHANGED <<pc, tw_db, habitica, note_files, run, stats_cache_file>>

\* The four canonical priorities, in thousandths
CanonicalPriorities == {100, 1000, 1500, 2000}

\* The priorities from_habitica_priority is applied to, in thousandths: the
\* canonical ones, values on both sides of each bucket's edge, and values far
\* from every bucket.  A value exactly 0.01 away from a bucket is left out: on
\* which side of the test it falls depends on the rounding of the f64 difference.
Priorities ==
    CanonicalPriorities \cup
    {-100, 0, 89, 91, 109, 111, 500, 989, 991, 1009, 1011, 1489, 1491, 1509, 1511,
     1991, 2009, 3000}

\* TaskDifficulty::to_habitica_priority and from_habitica_priority, each
\* applied to one value and then to the other's result
ApplyDifficulty ==
    /\ call.op = "none"
    /\ \E d \in TaskDifficulty, p \in Priorities :
        call' = [ op |-> "difficulty", d |-> d, priority |-> p,
                  encoded |-> to_habitica_priority(d),
                  decoded |-> from_habitica_priority(p),
                  decoded_encoded |-> from_habitica_priority(to_habitica_priority(d)),
                  encoded_decoded |-> to_habitica_priority(from_habitica_priority(p)) ]
    /\ UNCHANGED <<pc, tw_db, habitica, note_files, run, stats_cache_file>>

NextConv ==
    \/ ApplyResolve
    \/ ApplyResolveTwice
    \/ ApplyToHabitica
    \/ ApplyPull
    \/ ApplyEffectiveStatus
    \/ ApplyDifficulty

SpecConv == InitConv /\ [][NextConv]_vars

-----------------------------------------------------------------------------
(* Claims checked under SpecConv *)

\* C1: resolve returns one of NoChange, UseHabitica (remote), UseTaskwarrior
\* (local); NoChange exactly when the pair is equivalent, whatever the
\* timestamps; otherwise, with both timestamps present, UseHabitica exactly
\* when the remote timestamp is strictly greater, and UseTaskwarrior in every
\* other case, ties included.
C1_ResolveDecision ==
    call.op = "resolve" =>
        /\ call.result \in {"NoChange", "UseHabitica", "UseTaskwarrior"}
        /\ (call.result = "NoChange") <=> tasks_are_equivalent(call.tw, call.h)
        /\ ( /\ ~tasks_are_equivalent(call.tw, call.h)
             /\ IsSome(call.tw.modified)
             /\ IsSome(call.h.updated_at) ) =>
                /\ (call.result = "UseHabitica") <=>
                        (Unwrap(call.h.updated_at) > Unwrap(call.tw.modified))
                /\ (call.result = "UseTaskwarrior") <=>
                        (Unwrap(call.h.updated_at) <= Unwrap(call.tw.modified))

\* C1 witness: a non-equivalent pair with equal timestamps resolved for the local side
C1_Witness ==
    /\ call.op = "resolve"
    /\ ~tasks_are_equivalent(call.tw, call.h)
    /\ IsSome(call.tw.modified)
    /\ call.tw.modified = call.h.updated_at
    /\ call.result = "UseTaskwarrior"

\* C2: for every sync-eligible local task, whatever its remote id, difficulty
\* and type, the task is equivalent to its own conversion.
C2_EquivalentToOwnConversion ==
    (call.op = "to_habitica" /\ should_sync_to_habitica(call.tw.status)) =>
        /\ IsSome(call.result)
        /\ tasks_are_equivalent(call.tw, Unwrap(call.result))

\* C3: pulling a remote task whose effective status is Pending over an
\* existing local task that is Waiting returns a Waiting task.
C3_PullKeepsWaiting ==
    ( /\ call.op = "pull"
      /\ call.result.ok
      /\ IsSome(call.existing)
      /\ Unwrap(call.existing).status = "waiting"
      /\ effective_status(call.h) = "pending" ) =>
        call.result.task.status = "waiting"

-----------------------------------------------------------------------------
(* SpecOps: push_to_habitica and modify_on_habitica, applied to one task   *)
(* (or one old/new pair) under every answer of the remote service.         *)

\* UserStats; hp, mp, exp and gp in hundredths
UserStats(hp, mp, exp, gp, lvl) ==
    [ hp |-> hp, max_hp |-> Some(50), mp |-> mp, max_mp |-> Some(50), exp |-> exp,
      to_next_level |-> Some(100), gp |-> gp, lvl |-> lvl ]

Stats0 == UserStats(5000, 3000, 1000, 10000, 1)
Stats1 == UserStats(5000, 3000, 2000, 10100, 1)
Stats2 == UserStats(4500, 3000, 500, 10100, 2)

ApiResponse(status, new_id, stats, drop) ==
    [status |-> status, new_id |-> new_id, stats |-> stats, drop |-> drop]

\* What the service may answer to one request
Responses ==
    { ApiResponse("ok", i, pl[1], pl[2]) :
        i \in Ids,
        pl \in { <<None, None>>, <<Some(Stats1), None>>, <<None, Some("d1")>>,
                 <<Some(Stats2), Some("d2")>> } }
    \cup
    { ApiResponse(st, 1, None, None) :
        st \in {"not_found", "http_error", "success_false", "no_data"} }
    \cup
    {ApiResponse("not_found", 1, Some(Stats1), Some("d1"))}

OpLocals ==
    { Task(1, "a", st, Some(1), None, None, i, None, None, {}) :
        st \in TaskStatus, i \in Opt(Ids) }

OpCaches == {None, Some(StatsCacheNew(Stats0))}

\* The note store of an operation on task 1: no file, or a file that can or cannot be read
OpStores == { <<f, io>> \in Opt({<<"n">>}) \X BOOLEAN : f = None => io }

OpFiles(file) == [u \in Uuids |-> IF u = 1 THEN file ELSE None]

\* The answers an operation consumed: one per call it issued
Consumed(resps, result) == SubSeq(resps, 1, Len(result.calls))

InitOps ==
    /\ call = [op |-> "none"]
    /\ SyncIdle

ApplyPush ==
    /\ call.op = "none"
    /\ \E tw \in OpLocals, cache \in OpCaches, store \in OpStores,
          r1 \in Responses, r2 \in Responses :
        LET result == push_to_habitica(tw, cache, OpFiles(store[1]), store[2], <<r1, r2>>)
        IN  call' = [ op |-> "push", tw |-> tw, cache |-> cache, file |-> store[1],
                      io_ok |-> store[2], resps |-> Consumed(<<r1, r2>>, result),
                      result |-> result ]
    /\ UNCHANGED <<pc, tw_db, habitica, note_files, run, stats_cache_file>>

ApplyModify ==
    /\ call.op = "none"
    /\ \E old \in OpLocals, new \in OpLocals, cache \in OpCaches, store \in OpStores,
          r1 \in Responses, r2 \in Responses :
        LET result ==
                modify_on_habitica(old, new, cache, OpFiles(store[1]), store[2], <<r1, r2>>)
        IN  call' = [ op |-> "modify", old |-> old, tw |-> new, cache |-> cache,
                      file |-> store[1], io_ok |-> store[2],
                      resps |-> Consumed(<<r1, r2>>, result), result |-> result ]
    /\ UNCHANGED <<pc, tw_db, habitica, note_files, run, stats_cache_file>>

NextOps == ApplyPush \/ ApplyModify

SpecOps == InitOps /\ [][NextOps]_vars

-----------------------------------------------------------------------------
(* Claims checked under SpecOps *)

OpCalls == call.result.calls

KindCount(kind) == Cardinality({i \in DOMAIN OpCalls : OpCalls[i].kind = kind})

\* The operation stopped on the note store before it reached the remote
NoteReadFailed == IsSome(call.file) /\ ~call.io_ok

DropsOf(drop) == IF IsSome(drop) THEN <<Unwrap(drop)>> ELSE << >>

\* The ledger after the answers rs (in order) were folded into cache; only a
\* successful answer is read for stats and a reward message
LedgerAfter(cache, rs) ==
    IF ~IsSome(cache) THEN None
    ELSE LET c == Unwrap(cache)
             withStats == {i \in DOMAIN rs : rs[i].status = "ok" /\ IsSome(rs[i].stats)}
             last == CHOOSE i \in withStats : \A j \in withStats : j <= i
             AllDrops[i \in 0..Len(rs)] ==
                 IF i = 0 THEN << >>
                 ELSE AllDrops[i - 1] \o
                        (IF rs[i].status = "ok" THEN DropsOf(rs[i].drop) ELSE << >>)
         IN  Some([ old |-> c.old,
                    current |-> IF withStats = {} THEN c.current ELSE rs[last].stats,
                    drops |-> c.drops \o AllDrops[Len(rs)] ])

\* C4: push_to_habitica on a sync-eligible task issues exactly one create call
\* when the task has no remote id and exactly one update call addressed to its
\* remote id when it has one, never both (and nothing at all when the note
\* file cannot be read); the task it returns carries the id of the task the
\* remote returned; when the status is not Completed no scoring call is issued.
C4_PushCreateOrUpdate ==
    (call.op = "push" /\ call.tw.status \in {"pending", "waiting", "completed"}) =>
        IF NoteReadFailed
        THEN OpCalls = << >> /\ ~call.result.ok
        ELSE /\ Len(OpCalls) >= 1
             /\ KindCount("delete") = 0
             /\ ~IsSome(call.tw.habitica_uuid) =>
                    /\ KindCount("create") = 1
                    /\ KindCount("update") = 0
                    /\ OpCalls[1].kind = "create"
                    /\ call.result.ok =>
                          call.result.task.habitica_uuid = Some(call.resps[1].new_id)
             /\ IsSome(call.tw.habitica_uuid) =>
                    /\ KindCount("update") = 1
                    /\ KindCount("create") = 0
                    /\ OpCalls[1].kind = "update"
                    /\ OpCalls[1].id = call.tw.habitica_uuid
                    /\ call.result.ok =>
                          call.result.task.habitica_uuid = call.tw.habitica_uuid
             /\ call.tw.status # "completed" => KindCount("score") = 0

\* C4 witness: a Pending task without remote id was created and got the assigned id 2
C4_Witness ==
    /\ call.op = "push"
    /\ call.tw.status = "pending"
    /\ call.tw.habitica_uuid = None
    /\ call.result.ok
    /\ Len(OpCalls) = 1
    /\ OpCalls[1].kind = "create"
    /\ call.result.task.habitica_uuid = Some(2)

\* C5: push_to_habitica on a Completed task issues, once its create/update
\* succeeded, exactly one scoring call, "up", for the id the remote returned,
\* as its second call; the ledger receives the create/update's stats and
\* reward and then the scoring call's; a failed create/update is followed by
\* no scoring call.
C5_PushScoresCompleted ==
    (call.op = "push" /\ call.tw.status = "completed" /\ ~NoteReadFailed) =>
        /\ OpCalls[1].kind \in {"create", "update"}
        /\ OpCalls[1].status # "ok" =>
              /\ KindCount("score") = 0
              /\ Len(OpCalls) = 1
              /\ ~call.result.ok
        /\ OpCalls[1].status = "ok" =>
              /\ KindCount("score") = 1
              /\ Len(OpCalls) = 2
              /\ OpCalls[2].kind = "score"
              /\ OpCalls[2].direction = "up"
              /\ OpCalls[2].id = IF OpCalls[1].kind = "create"
                                 THEN Some(call.resps[1].new_id)
                                 ELSE call.tw.habitica_uuid
              /\ call.result.ok <=> OpCalls[2].status \in {"ok", "not_found"}
              /\ call.result.ok =>
                    call.result.cache = LedgerAfter(call.cache, call.resps)
              /\ ~call.result.ok =>
                    call.result.cache = LedgerAfter(call.cache, <<call.resps[1]>>)

\* C5 witness: a Completed task without remote id, created and then scored,
\* with both answers carrying stats and the ledger ending on the second
C5_Witness ==
    /\ call.op = "push"
    /\ call.tw.status = "completed"
    /\ call.tw.habitica_uuid = None
    /\ call.result.ok
    /\ Len(OpCalls) = 2
    /\ OpCalls[2].kind = "score"
    /\ OpCalls[2].id = Some(2)
    /\ call.resps[1].stats = Some(Stats1)
    /\ call.resps[2].stats = Some(Stats2)
    /\ IsSome(call.result.cache)
    /\ Unwrap(call.result.cache).current = Some(Stats2)
    /\ Unwrap(call.result.cache).drops = <<"d2">>

\* The pairs of claim C6: both sync-eligible, new carrying a remote id
C6_Case ==
    /\ call.op = "modify"
    /\ call.old.status \in {"pending", "waiting", "completed"}
    /\ call.tw.status \in {"pending", "waiting", "completed"}
    /\ IsSome(call.tw.habitica_uuid)
    /\ ~NoteReadFailed

\* C6: on such a pair modify_on_habitica issues exactly one update call, first;
\* once it succeeded, a scoring call follows if and only if the completion
\* state changed: "up" when old is not Completed and new is, "down" when old
\* is Completed and new is not; never more than one, never before the update;
\* the ledger receives the update's result and then the scoring result.
C6_ModifyUpdateThenScore ==
    C6_Case =>
        /\ KindCount("update") = 1
        /\ KindCount("create") = 0
        /\ KindCount("delete") = 0
        /\ KindCount("score") <= 1
        /\ OpCalls[1].kind = "update"
        /\ OpCalls[1].id = call.tw.habitica_uuid
        /\ OpCalls[1].status # "ok" => (Len(OpCalls) = 1 /\ ~call.result.ok)
        /\ OpCalls[1].status = "ok" =>
              /\ (KindCount("score") = 1) <=>
                    ((call.old.status = "completed") # (call.tw.status = "completed"))
              /\ KindCount("score") = 1 =>
                    /\ OpCalls[2].kind = "score"
                    /\ OpCalls[2].id = call.tw.habitica_uuid
                    /\ OpCalls[2].direction =
                          IF call.tw.status = "completed" THEN "up" ELSE "down"
              /\ call.result.ok =>
                    call.result.cache = LedgerAfter(call.cache, call.resps)
              /\ ~call.result.ok =>
                    call.result.cache = LedgerAfter(call.cache, <<call.resps[1]>>)

\* C6 witness: Pending -> Completed on a synced task: update, then score "up",
\* and a ledger holding both results
C6_Witness ==
    /\ C6_Case
    /\ call.old.status = "pending"
    /\ call.tw.status = "completed"
    /\ call.result.ok
    /\ Len(OpCalls) = 2
    /\ OpCalls[2].direction = "up"
    /\ call.resps[1].drop = Some("d1")
    /\ call.resps[2].drop = Some("d2")
    /\ IsSome(call.result.cache)
    /\ Unwrap(call.result.cache).drops = <<"d1", "d2">>

\* C7: whenever old and new are both sync-eligible, modify_on_habitica issues
\* an update call for new, also when new carries no remote id.
C7_ModifyAlwaysUpdates ==
    ( /\ call.op = "modify"
      /\ call.old.status \in {"pending", "waiting", "completed"}
      /\ call.tw.status \in {"pending", "waiting", "completed"}
      /\ ~NoteReadFailed ) =>
        KindCount("update") >= 1

\* C8: with new Deleted or Recurring and old carrying a remote id,
\* modify_on_habitica issues exactly one delete call, for old's remote id, and
\* no other call, leaves the ledger as it was, and returns new with its remote
\* id cleared.
C8_ModifyDeletes ==
    ( /\ call.op = "modify"
      /\ call.tw.status \in {"deleted", "recurring"}
      /\ IsSome(call.old.habitica_uuid) ) =>
        /\ Len(OpCalls) = 1
        /\ OpCalls[1].kind = "delete"
        /\ OpCalls[1].id = call.old.habitica_uuid
        /\ call.result.cache = call.cache
        /\ call.result.ok <=> OpCalls[1].status \in {"ok", "not_found", "no_data"}
        /\ call.result.ok =>
              call.result.task = [call.tw EXCEPT !.habitica_uuid = None]

\* C8 witness: a Recurring new task that still carries remote id 1, old
\* carrying remote id 2: one delete call for 2, and the id cleared
C8_Witness ==
    /\ call.op = "modify"
    /\ call.tw.status = "recurring"
    /\ call.tw.habitica_uuid = Some(1)
    /\ call.old.habitica_uuid = Some(2)
    /\ IsSome(call.cache)
    /\ call.result.ok
    /\ Len(OpCalls) = 1
    /\ OpCalls[1].kind = "delete"
    /\ OpCalls[1].id = Some(2)
    /\ OpCalls[1].status = "ok"
    /\ call.result.task.habitica_uuid = None

-----------------------------------------------------------------------------
(* Spec: the sync command (commands/sync.rs, handle_sync).  A behaviour is *)
(* one run over a Taskwarrior database and a Habitica account of at most   *)
(* two tasks each: the snapshots, the push of each local-only task, the    *)
(* pairing, and one step per key.  A step is the whole handling of one     *)
(* task: its remote calls, its note-store accesses and its import.         *)

\* taskwarrior/client.rs: export lists the tasks matching its filters, in uuid order
RECURSIVE TasksOfDb(_, _)
TasksOfDb(db, u) ==
    IF u > MaxUuid THEN << >>
    ELSE (IF IsSome(db[u]) THEN <<Unwrap(db[u])>> ELSE << >>) \o TasksOfDb(db, u + 1)

export(db, filter) ==
    LET Matches(t) == \A term \in filter :
                          CASE term = "status:pending" -> t.status = "pending"
                            [] term = "habitica_uuid.none:" -> ~IsSome(t.habitica_uuid)
                            [] term = "habitica_uuid.any:" -> IsSome(t.habitica_uuid)
    IN  SelectSeq(TasksOfDb(db, 1), Matches)

\* Mutant: the first export also returns the pending tasks that have a remote id
get_pending_without_habitica_AllPending(db) == export(db, {"status:pending"})

get_pending_without_habitica(db) == export(db, {"status:pending", "habitica_uuid.none:"})

get_tasks_with_habitica(db) == export(db, {"habitica_uuid.any:"})

\* TaskwarriorClient::import: the record replaces the task of the same uuid
import(db, task) == [db EXCEPT ![task.uuid] = Some(task)]

\* habitica/client.rs: get_tasks(type) lists the account's tasks of one kind, in id order
RECURSIVE TasksOfAccount(_, _)
TasksOfAccount(account, i) ==
    IF i > Len(account) THEN << >>
    ELSE (IF IsSome(account[i]) THEN <<Unwrap(account[i])>> ELSE << >>)
         \o TasksOfAccount(account, i + 1)

get_tasks(account, type_param) ==
    LET Matches(t) == CASE type_param = "todos" -> t.task_type = "todo" /\ ~t.completed
                        [] type_param = "dailys" -> t.task_type = "daily"
                        [] type_param = "_allCompletedTodos" -> t.task_type = "todo" /\ t.completed
    IN  SelectSeq(TasksOfAccount(account, 1), Matches)

\* todos, then dailys, then completed todos
get_all_tasks(account) ==
    get_tasks(account, "todos") \o get_tasks(account, "dailys")
        \o get_tasks(account, "_allCompletedTodos")

\* HashMap::get on a map collected from a list: the last entry of the key, if any
MapGet(list, keys, k) ==
    LET at == {j \in DOMAIN list : keys[j] = Some(k)}
    IN  IF at = {} THEN None
        ELSE Some(list[CHOOSE j \in at : \A j2 \in at : j2 <= j])

h_tasks_map_get(h_tasks, k) ==
    MapGet(h_tasks, [j \in DOMAIN h_tasks |-> h_tasks[j].id], k)

tw_synced_map_get(tw_synced, k) ==
    MapGet(tw_synced, [j \in DOMAIN tw_synced |-> tw_synced[j].habitica_uuid], k)

\* sort() and dedup() of a list of ids: the ids of the set in ascending order
RECURSIVE SortedIds(_)
SortedIds(S) ==
    IF S = {} THEN << >>
    ELSE LET least == CHOOSE x \in S : \A y \in S : x <= y
         IN  <<least>> \o SortedIds(S \ {least})

\* Mutant: the keys are the ids of the remote snapshot alone
all_h_uuids_RemoteOnly(h_tasks, tw_synced) ==
    SortedIds({Unwrap(h_tasks[j].id) : j \in {j2 \in DOMAIN h_tasks : IsSome(h_tasks[j2].id)}})

all_h_uuids(h_tasks, tw_synced) ==
    SortedIds( {Unwrap(h_tasks[j].id) : j \in {j2 \in DOMAIN h_tasks : IsSome(h_tasks[j2].id)}}
               \cup {Unwrap(tw_synced[j].habitica_uuid) : j \in DOMAIN tw_synced} )

\* Uuid::new_v4: a uuid no task of the database carries
FreshUuid(db) == CHOOSE u \in Uuids : ~IsSome(db[u]) /\ \A v \in Uuids : v < u => IsSome(db[v])

\* The answers of the service during a run; a created task gets new_id
SyncResponses(new_id) ==
    { ApiResponse("ok", new_id, None, None),
      ApiResponse("ok", new_id, Some(Stats1), Some("d1")),
      ApiResponse("ok", new_id, Some(Stats2), None),
      ApiResponse("http_error", new_id, None, None),
      ApiResponse("not_found", new_id, None, None) }

\* The id Habitica gives the next task created in this run: one no task of
\* the account carries
NextNewId ==
    Len(habitica) + 1 + Cardinality({j \in DOMAIN run.calls : run.calls[j].kind = "create"})

\* Mutant: current_stats keeps the snapshot taken at the start of the run
StatsAfter_KeepsSnapshot(current_stats, cache) == current_stats

\* if let Some(new_stats) = cache.current.clone() { current_stats = new_stats; }
StatsAfter(current_stats, cache) ==
    IF IsSome(cache.current) THEN Unwrap(cache.current) ELSE current_stats

SyncLocals1 ==
    {None} \cup
    { Some(Task(1, "a", st, Some(1), None, None, i, None, None, {})) :
        st \in TaskStatus, i \in Opt(Ids) }

SyncLocals2 ==
    {None} \cup
    { Some(Task(2, "a", st, Some(1), None, None, i, None, None, {})) :
        st \in {"pending", "completed"}, i \in Opt(Ids) }

SyncRemotes1 ==
    {None} \cup
    { Some(HabiticaTask(Some(1), x, << >>, "todo", 1000, c, None, Some(m), FALSE)) :
        x \in {"a", "b"}, c \in BOOLEAN, m \in Times }

SyncRemotes2 ==
    {None} \cup
    { Some(HabiticaTask(Some(2), "a", notes, "todo", 1000, FALSE, None, Some(1), FALSE)) :
        notes \in {<< >>, <<"n">>} }

Init ==
    /\ call = [op |-> "none"]
    /\ pc = "start"
    /\ \E l1 \in SyncLocals1, l2 \in SyncLocals2 :
          tw_db = [u \in Uuids |-> IF u = 1 THEN l1 ELSE IF u = 2 THEN l2 ELSE None]
    /\ \E r1 \in SyncRemotes1, r2 \in SyncRemotes2 :
          habitica = [i \in Ids |-> IF i = 1 THEN r1 ELSE IF i = 2 THEN r2 ELSE None]
    /\ note_files = [u \in Uuids |-> None]
    /\ run = << >>
    /\ stats_cache_file = None

\* What one step of the run did: the case, the key, the two records it was
\* given, the remote calls it issued, the records it imported, and whether
\* it returned Ok
Step(kind, key, tw, h, calls, imported, ok) ==
    [ kind |-> kind, key |-> key, tw |-> tw, h |-> h, calls |-> calls,
      imported |-> imported, ok |-> ok ]

\* Mutant: the run skips the failed task and goes on with the next
Abort_SkipsTask(step, files) ==
    /\ pc' = pc
    /\ tw_db' = tw_db
    /\ note_files' = files
    /\ run' = [run EXCEPT !.calls = @ \o step.calls, !.i = @ + 1, !.last = step]

\* A step returned an error: `?` leaves handle_sync.  The calls it issued
\* and the note files it wrote stay.
Abort(step, files) ==
    /\ pc' = "failed"
    /\ tw_db' = tw_db
    /\ note_files' = files
    /\ run' = [run EXCEPT !.calls = @ \o step.calls, !.last = step]

\* A step returned Ok: the run moves on to the next item.  db and files are
\* the database and the note store it leaves, stats the current_stats, and
\* reports the stats caches whose diff it printed.
Advance(step, db, files, stats, reports) ==
    /\ pc' = pc
    /\ tw_db' = db
    /\ note_files' = files
    /\ run' = [run EXCEPT !.calls = @ \o step.calls,
                          !.imports = @ \o step.imported,
                          !.i = @ + 1,
                          !.current_stats = stats,
                          !.printed = @ \o reports,
                          !.last = step]

\* Lines 20-26: the two exports, the task list and the user's stats
TakeSnapshots ==
    /\ pc = "start"
    /\ \E ok \in BOOLEAN, stats \in {Stats0} :
        IF ok
        THEN /\ pc' = "push_local"
             /\ run' = [ tw_only |-> get_pending_without_habitica(tw_db),
                         tw_synced |-> get_tasks_with_habitica(tw_db),
                         h_tasks |-> get_all_tasks(habitica),
                         current_stats |-> stats,
                         keys |-> << >>,
                         i |-> 1,
                         calls |-> << >>,
                         imports |-> << >>,
                         printed |-> << >>,
                         last |-> Step("snapshots", None, None, None, << >>, << >>, TRUE) ]
        ELSE /\ pc' = "failed"
             /\ run' = [ calls |-> << >>, imports |-> << >>,
                         last |-> Step("snapshots", None, None, None, << >>, << >>, FALSE) ]
    /\ UNCHANGED <<call, tw_db, habitica, note_files, stats_cache_file>>

\* Lines 29-47: one task that exists only in Taskwarrior
PushLocalOnly ==
    /\ pc = "push_local"
    /\ run.i <= Len(run.tw_only)
    /\ \E io_ok \in BOOLEAN, import_ok \in BOOLEAN,
          r1 \in SyncResponses(NextNewId), r2 \in SyncResponses(NextNewId) :
        LET tw_task == run.tw_only[run.i]
            stats_cache == Some(StatsCacheNew(run.current_stats))
            pushed == push_to_habitica(tw_task, stats_cache, note_files, io_ok, <<r1, r2>>)
            cache == Unwrap(pushed.cache)
            step(imported, ok) ==
                Step("local_only", None, Some(tw_task), None, pushed.calls, imported, ok)
        IN  IF ~pushed.ok \/ ~import_ok
            THEN Abort(step(<< >>, FALSE), pushed.files)
            ELSE Advance(step(<<pushed.task>>, TRUE), import(tw_db, pushed.task),
                         pushed.files, StatsAfter(run.current_stats, cache), <<cache>>)
    /\ UNCHANGED <<call, habitica, stats_cache_file>>

\* Lines 49-64: the two maps and the sorted, deduplicated list of keys
BuildPairing ==
    /\ pc = "push_local"
    /\ run.i > Len(run.tw_only)
    /\ pc' = "pair"
    /\ run' = [run EXCEPT !.keys = all_h_uuids(run.h_tasks, run.tw_synced), !.i = 1]
    /\ UNCHANGED <<call, tw_db, habitica, note_files, stats_cache_file>>

\* The pair of the key the loop of line 67 is at
AtKey == pc = "pair" /\ run.i <= Len(run.keys)
CurrentKey == run.keys[run.i]
h_task_opt == h_tasks_map_get(run.h_tasks, CurrentKey)
tw_task_opt == tw_synced_map_get(run.tw_synced, CurrentKey)

\* Lines 72-81: the task exists only on Habitica
PairCreatedOnHabitica ==
    /\ AtKey
    /\ IsSome(h_task_opt) /\ ~IsSome(tw_task_opt)
    /\ \E io_ok \in BOOLEAN, import_ok \in BOOLEAN :
        LET h_task == Unwrap(h_task_opt)
            env == [fresh |-> FreshUuid(tw_db), now |-> MaxTime, io_ok |-> io_ok]
            pulled == pull_from_habitica(h_task, None, note_files, env)
            step(imported, ok) ==
                Step("created_on_habitica", Some(CurrentKey), None, h_task_opt, << >>,
                     imported, ok)
        IN  IF ~pulled.ok \/ ~import_ok
            THEN Abort(step(<< >>, FALSE), pulled.files)
            ELSE Advance(step(<<pulled.task>>, TRUE), import(tw_db, pulled.task),
                         pulled.files, run.current_stats, << >>)
    /\ UNCHANGED <<call, habitica, stats_cache_file>>

\* Mutant: a Completed task is marked Deleted like any other
DeletedOnHabiticaUpdate_AlwaysDeleted(tw_task) ==
    [tw_task EXCEPT !.status = "deleted", !.habitica_uuid = None]

\* The record lines 88-99 import for a task deleted on Habitica
DeletedOnHabiticaUpdate(tw_task) ==
    IF tw_task.status = "completed"
    THEN [tw_task EXCEPT !.habitica_uuid = None]
    ELSE [tw_task EXCEPT !.status = "deleted", !.habitica_uuid = None]

\* Lines 83-101: the task was deleted on Habitica
PairDeletedOnHabitica ==
    /\ AtKey
    /\ ~IsSome(h_task_opt) /\ IsSome(tw_task_opt)
    /\ \E import_ok \in BOOLEAN :
        LET tw_task == Unwrap(tw_task_opt)
            updated == DeletedOnHabiticaUpdate(tw_task)
            step(imported, ok) ==
                Step("deleted_on_habitica", Some(CurrentKey), tw_task_opt, None, << >>,
                     imported, ok)
        IN  IF ~import_ok
            THEN Abort(step(<< >>, FALSE), note_files)
            ELSE Advance(step(<<updated>>, TRUE), import(tw_db, updated), note_files,
                         run.current_stats, << >>)
    /\ UNCHANGED <<call, habitica, stats_cache_file>>

\* resolver.resolve on the pair of the current key; the tasks of a run carry
\* their timestamps, so the clock is not read
CurrentResolution ==
    resolve(Unwrap(tw_task_opt), Unwrap(h_task_opt), MaxTime, MaxTime)

\* Mutant: an equal pair is pulled and imported all the same
PairNoChange_Imports ==
    /\ AtKey
    /\ IsSome(h_task_opt) /\ IsSome(tw_task_opt)
    /\ CurrentResolution = "NoChange"
    /\ LET env == [fresh |-> FreshUuid(tw_db), now |-> MaxTime, io_ok |-> TRUE]
           pulled == pull_from_habitica(Unwrap(h_task_opt), tw_task_opt, note_files, env)
       IN  Advance(Step("no_change", Some(CurrentKey), tw_task_opt, h_task_opt, << >>,
                        <<pulled.task>>, TRUE),
                   import(tw_db, pulled.task), pulled.files, run.current_stats, << >>)
    /\ UNCHANGED <<call, habitica, stats_cache_file>>

\* Lines 106-114: the tasks are equal, nothing is done
PairNoChange ==
    /\ AtKey
    /\ IsSome(h_task_opt) /\ IsSome(tw_task_opt)
    /\ CurrentResolution = "NoChange"
    /\ Advance(Step("no_change", Some(CurrentKey), tw_task_opt, h_task_opt, << >>, << >>,
                    TRUE),
               tw_db, note_files, run.current_stats, << >>)
    /\ UNCHANGED <<call, habitica, stats_cache_file>>

\* Lines 116-125: the Habitica task is the most recently modified
PairUseHabitica ==
    /\ AtKey
    /\ IsSome(h_task_opt) /\ IsSome(tw_task_opt)
    /\ CurrentResolution = "UseHabitica"
    /\ \E io_ok \in BOOLEAN, import_ok \in BOOLEAN :
        LET env == [fresh |-> FreshUuid(tw_db), now |-> MaxTime, io_ok |-> io_ok]
            pulled == pull_from_habitica(Unwrap(h_task_opt), tw_task_opt, note_files, env)
            step(imported, ok) ==
                Step("use_habitica", Some(CurrentKey), tw_task_opt, h_task_opt, << >>,
                     imported, ok)
        IN  IF ~pulled.ok \/ ~import_ok
            THEN Abort(step(<< >>, FALSE), pulled.files)
            ELSE Advance(step(<<pulled.task>>, TRUE), import(tw_db, pulled.task),
                         pulled.files, run.current_stats, << >>)
    /\ UNCHANGED <<call, habitica, stats_cache_file>>

\* Lines 127-148: the Taskwarrior task is the most recently modified
PairUseTaskwarrior ==
    /\ AtKey
    /\ IsSome(h_task_opt) /\ IsSome(tw_task_opt)
    /\ CurrentResolution = "UseTaskwarrior"
    /\ \E pull_io_ok \in BOOLEAN, io_ok \in BOOLEAN, import_ok \in BOOLEAN,
          r1 \in SyncResponses(NextNewId), r2 \in SyncResponses(NextNewId) :
        LET tw_task == Unwrap(tw_task_opt)
            stats_cache == Some(StatsCacheNew(run.current_stats))
            env == [fresh |-> FreshUuid(tw_db), now |-> MaxTime, io_ok |-> pull_io_ok]
            old_tw == pull_from_habitica(Unwrap(h_task_opt), tw_task_opt, note_files, env)
            updated_tw == modify_on_habitica(old_tw.task, tw_task, stats_cache, old_tw.files,
                                             io_ok, <<r1, r2>>)
            cache == Unwrap(updated_tw.cache)
            step(calls, imported, ok) ==
                Step("use_taskwarrior", Some(CurrentKey), tw_task_opt, h_task_opt, calls,
                     imported, ok)
        IN  IF ~old_tw.ok
            THEN Abort(step(<< >>, << >>, FALSE), old_tw.files)
            ELSE IF ~updated_tw.ok \/ ~import_ok
            THEN Abort(step(updated_tw.calls, << >>, FALSE), updated_tw.files)
            ELSE Advance(step(updated_tw.calls, <<updated_tw.task>>, TRUE),
                         import(tw_db, updated_tw.task), updated_tw.files,
                         StatsAfter(run.current_stats, cache), <<cache>>)
    /\ UNCHANGED <<call, habitica, stats_cache_file>>

\* Lines 160-161: every key was handled
Finish ==
    /\ pc = "pair"
    /\ run.i > Len(run.keys)
    /\ pc' = "done"
    /\ UNCHANGED <<call, tw_db, habitica, note_files, run, stats_cache_file>>

Next ==
    \/ TakeSnapshots
    \/ PushLocalOnly
    \/ BuildPairing
    \/ PairCreatedOnHabitica
    \/ PairDeletedOnHabitica
    \/ PairNoChange
    \/ PairUseHabitica
    \/ PairUseTaskwarrior
    \/ Finish

Spec == Init /\ [][Next]_vars

-----------------------------------------------------------------------------
(* Claims checked under Spec *)

\* The last step handled a key of the pairing
AfterKeyStep == pc \in {"pair", "failed", "done"} /\ IsSome(run.last.key)

LastKey == Unwrap(run.last.key)

\* C9: when the record paired with a key references a remote id that the
\* remote snapshot does not hold, the step issues no remote call, and the
\* record it imports is that record with the remote id cleared and the status
\* kept if it was Completed, set to Deleted otherwise.
C9_DeletedOnHabitica ==
    ( /\ AfterKeyStep
      /\ ~IsSome(h_tasks_map_get(run.h_tasks, LastKey))
      /\ IsSome(tw_synced_map_get(run.tw_synced, LastKey)) ) =>
        LET tw_task == Unwrap(tw_synced_map_get(run.tw_synced, LastKey))
        IN  /\ run.last.calls = << >>
            /\ run.last.ok =>
                  /\ Len(run.last.imported) = 1
                  /\ run.last.imported[1] =
                        [ tw_task EXCEPT
                            !.habitica_uuid = None,
                            !.status = IF tw_task.status = "completed"
                                       THEN "completed" ELSE "deleted" ]
                  /\ tw_db[tw_task.uuid] = Some(run.last.imported[1])
            /\ ~run.last.ok => run.last.imported = << >>

\* C9 witness: a Completed task whose remote id 1 is gone was imported,
\* still Completed, without the id
C9_Witness ==
    /\ AfterKeyStep
    /\ run.last.ok
    /\ ~IsSome(h_tasks_map_get(run.h_tasks, LastKey))
    /\ IsSome(run.last.tw)
    /\ Unwrap(run.last.tw).status = "completed"
    /\ Unwrap(run.last.tw).habitica_uuid = Some(1)
    /\ Len(run.last.imported) = 1
    /\ run.last.imported[1].status = "completed"
    /\ run.last.imported[1].habitica_uuid = None

\* C9 witness, second case: a Waiting task whose remote id is gone was imported as Deleted
C9_WitnessDeleted ==
    /\ AfterKeyStep
    /\ run.last.ok
    /\ ~IsSome(h_tasks_map_get(run.h_tasks, LastKey))
    /\ IsSome(run.last.tw)
    /\ Unwrap(run.last.tw).status = "waiting"
    /\ Len(run.last.imported) = 1
    /\ run.last.imported[1].status = "deleted"

\* The key the run is at is present on both sides and the resolver classifies it NoChange
AtNoChangePair ==
    /\ AtKey
    /\ IsSome(h_task_opt)
    /\ IsSome(tw_task_opt)
    /\ resolve(Unwrap(tw_task_opt), Unwrap(h_task_opt), MaxTime, MaxTime) = "NoChange"

\* C10: the step that handles a pair classified NoChange issues no remote
\* call, imports nothing, writes and deletes nothing in the note store, and
\* leaves the local database and the remote tasks as they were.
C10_NoChangeNoIO ==
    [][ AtNoChangePair =>
            /\ run'.calls = run.calls
            /\ run'.imports = run.imports
            /\ note_files' = note_files
            /\ tw_db' = tw_db
            /\ habitica' = habitica
            /\ pc' = "pair" ]_vars

\* C10 witness: a pair present on both sides was handled as NoChange after
\* an earlier step of the run had imported a task
C10_Witness ==
    /\ pc = "pair"
    /\ run.last.kind = "no_change"
    /\ tasks_are_equivalent(Unwrap(run.last.tw), Unwrap(run.last.h))
    /\ run.last.calls = << >>
    /\ Len(run.imports) >= 1

\* The key the run is at is handled by pulling: it is held by the remote
\* snapshot only, or by both sides with the resolver answering UseHabitica
AtPullPair ==
    /\ AtKey
    /\ IsSome(h_task_opt)
    /\ \/ ~IsSome(tw_task_opt)
       \/ resolve(Unwrap(tw_task_opt), Unwrap(h_task_opt), MaxTime, MaxTime) = "UseHabitica"

\* C11: the step that handles a remote-only key, or a pair resolved
\* UseHabitica, issues no remote call; when it succeeds it imports exactly
\* one record, the one pull_from_habitica builds, which carries the key as
\* its remote id, so that the synced export of the next run pairs the key
\* with a local record; when it fails it imports nothing.
C11_PullThenImport ==
    [][ AtPullPair =>
            /\ run'.calls = run.calls
            /\ habitica' = habitica
            /\ pc' \in {"pair", "failed"}
            /\ pc' = "failed" => (run'.imports = run.imports /\ tw_db' = tw_db)
            /\ pc' = "pair" =>
                  LET env == [fresh |-> FreshUuid(tw_db), now |-> MaxTime, io_ok |-> TRUE]
                      pulled == pull_from_habitica(Unwrap(h_task_opt), tw_task_opt,
                                                   note_files, env)
                  IN  /\ run'.imports = Append(run.imports, pulled.task)
                      /\ pulled.task.habitica_uuid = Some(CurrentKey)
                      /\ tw_db' = import(tw_db, pulled.task)
                      /\ note_files' = pulled.files
                      /\ IsSome(tw_synced_map_get(get_tasks_with_habitica(tw_db'),
                                                  CurrentKey)) ]_vars

\* C11 witness: a run that issued no remote call imported two records, the
\* first for a pair resolved UseHabitica and the last for a key held by the
\* remote snapshot only, each carrying its key as remote id
C11_Witness ==
    /\ pc = "pair"
    /\ run.last.kind = "created_on_habitica"
    /\ run.last.ok
    /\ run.calls = << >>
    /\ Len(run.tw_synced) = 1
    /\ run.tw_synced[1].habitica_uuid = Some(1)
    /\ Len(run.imports) = 2
    /\ run.imports[1].uuid = run.tw_synced[1].uuid
    /\ run.imports[1].habitica_uuid = Some(1)
    /\ run.imports[2].habitica_uuid = Some(2)
    /\ tw_synced_map_get(get_tasks_with_habitica(tw_db), 2) = Some(run.imports[2])

\* The run is at a task of tw_only (loop of line 29)
AtLocalOnly == pc = "push_local" /\ run.i <= Len(run.tw_only)

\* The number of create calls the run issued
RunCreates == Cardinality({j \in DOMAIN run.calls : run.calls[j].kind = "create"})

\* The step that handles one local-only task and succeeds issues one create
\* call and imports the task with the id the remote assigned
C12_PushStep ==
    [][ (AtLocalOnly /\ pc' = "push_local") =>
            LET tw_task == run.tw_only[run.i]
                note == read_note(note_files, tw_task, TRUE).value
                body == taskwarrior_to_habitica(tw_task, note)
                updated == [tw_task EXCEPT !.habitica_uuid = Some(NextNewId)]
            IN  /\ tw_task.status = "pending"
                /\ ~IsSome(tw_task.habitica_uuid)
                /\ Len(run'.calls) = Len(run.calls) + 1
                /\ SubSeq(run'.calls, 1, Len(run.calls)) = run.calls
                /\ LET c == run'.calls[Len(run'.calls)]
                   IN  /\ c.kind = "create"
                       /\ c.id = None
                       /\ c.body = body
                       /\ c.status = "ok"
                /\ run'.imports = Append(run.imports, updated)
                /\ tw_db' = import(tw_db, updated) ]_vars

\* Once the push phase is over, each local-only task was created once and
\* imported once with its assigned id; the pairing phase has no key for that
\* id, pairs no record of that task, and leaves the imported record in place
C12_NotPairedAgain ==
    pc \in {"pair", "done"} =>
        /\ RunCreates = Len(run.tw_only)
        /\ \A j \in DOMAIN run.tw_only :
              LET tw_task == run.tw_only[j]
                  imported == run.imports[j]
              IN  /\ imported = [tw_task EXCEPT !.habitica_uuid = Some(MaxId + j)]
                  /\ tw_db[tw_task.uuid] = Some(imported)
                  /\ \A k \in DOMAIN run.keys :
                        /\ run.keys[k] # MaxId + j
                        /\ \A t \in tw_synced_map_get(run.tw_synced, run.keys[k]) :
                              t.uuid # tw_task.uuid
                  /\ \A k \in DOMAIN run.imports : k # j => run.imports[k].uuid # tw_task.uuid

\* C12: in a sync run each local-only task (Pending, no remote id) gets
\* exactly one create call and one import carrying the id the remote
\* assigned, and the pairing phase of the same run does not handle it again.
C12_LocalOnlyOnce == C12_PushStep /\ []C12_NotPairedAgain

\* C12 witness: a run pushed a local-only task, then handled a key of the
\* pairing for another task with a remote call, and completed
C12_Witness ==
    /\ pc = "done"
    /\ Len(run.tw_only) = 1
    /\ Len(run.keys) >= 1
    /\ Len(run.imports) = 2
    /\ Len(run.calls) = 2
    /\ run.calls[1].kind = "create"
    /\ run.imports[1].habitica_uuid = Some(MaxId + 1)
    /\ run.last.kind = "use_taskwarrior"

\* The ids the two snapshots of the pairing hold: the ids of the remote
\* tasks listed, and the remote ids the synced local records reference
SnapshotIds ==
    {i \in Ids : \E j \in DOMAIN run.h_tasks : run.h_tasks[j].id = Some(i)}
        \cup {Unwrap(run.tw_synced[j].habitica_uuid) : j \in DOMAIN run.tw_synced}

\* Each step of the pairing phase handles the key the loop is at, moves to
\* the next key when it succeeds, issues remote calls for that key only, and
\* the run ends once the last key was handled
C13_KeyStep ==
    [][ /\ AtKey =>
              /\ run'.last.key = Some(CurrentKey)
              /\ run'.keys = run.keys
              /\ pc' = "pair" => run'.i = run.i + 1
              /\ pc' \in {"pair", "failed"}
              /\ run'.calls = run.calls \o run'.last.calls
              /\ \A j \in DOMAIN run'.last.calls : run'.last.calls[j].id = Some(CurrentKey)
        /\ (pc = "pair" /\ pc' = "done") => run.i = Len(run.keys) + 1 ]_vars

\* The keys are the ids of the two snapshots, each once, in ascending
\* order, and the calls of the pairing phase follow the order of the keys
C13_KeysSorted ==
    pc \in {"pair", "done"} =>
        /\ {run.keys[k] : k \in DOMAIN run.keys} = SnapshotIds
        /\ \A j, k \in DOMAIN run.keys : j < k => run.keys[j] < run.keys[k]
        /\ \A a, b \in DOMAIN run.calls :
              (a < b /\ IsSome(run.calls[a].id) /\ IsSome(run.calls[b].id)) =>
                  Unwrap(run.calls[a].id) <= Unwrap(run.calls[b].id)

\* C13: the keys of the pairing phase are the union of the remote ids of the
\* remote snapshot and of the local synced snapshot; each key is handled
\* exactly once, in ascending order, and the calls and the import of one key
\* are finished before the next key is looked at.
C13_PairingOrder == C13_KeyStep /\ []C13_KeysSorted

\* C13 witness: a completed run paired key 1, known to the remote only,
\* before key 2, known to a local record only
C13_Witness ==
    /\ pc = "done"
    /\ run.keys = <<1, 2>>
    /\ IsSome(habitica[1])
    /\ ~IsSome(habitica[2])
    /\ \A j \in DOMAIN run.tw_synced : run.tw_synced[j].habitica_uuid = Some(2)
    /\ run.last.key = Some(2)
    /\ Len(run.imports) = 2

\* The client function that issued the call returned an error
CallFailed(c) ==
    CASE c.kind \in {"create", "update"} -> c.status # "ok"
      [] c.kind = "delete" -> c.status \notin {"ok", "not_found", "no_data"}
      [] c.kind = "score" -> c.status \notin {"ok", "not_found"}

\* A run that failed does nothing more; the step that fails imports nothing
\* and keeps the calls, the imports and the database of the earlier steps
C14_FailingStep ==
    [][ /\ pc # "failed"
        /\ (AtLocalOnly \/ AtKey) =>
              /\ Len(run'.calls) >= Len(run.calls)
              /\ SubSeq(run'.calls, 1, Len(run.calls)) = run.calls
              /\ Len(run'.imports) >= Len(run.imports)
              /\ SubSeq(run'.imports, 1, Len(run.imports)) = run.imports
              /\ ~run'.last.ok =>
                    /\ pc' = "failed"
                    /\ run'.imports = run.imports
                    /\ tw_db' = tw_db ]_vars

\* A failed call is the last call of the run, and the run has stopped on it;
\* so has a run whose last step returned an error
C14_StoppedOnFailure ==
    /\ pc \in {"push_local", "pair", "done", "failed"} =>
          /\ \A j \in DOMAIN run.calls :
                CallFailed(run.calls[j]) => (pc = "failed" /\ j = Len(run.calls))
          /\ ~run.last.ok => pc = "failed"
    /\ pc = "failed" => ~run.last.ok

\* C14: a sync run stops at the first failing step: after a remote call, a
\* note-store operation or an import failed for one task, the run issues no
\* further call, import or note write, and what the earlier tasks did stays.
C14_StopsAtFirstFailure == C14_FailingStep /\ []C14_StoppedOnFailure

\* C14 witness: a run imported one task, then stopped on the failed remote
\* call of a later task, with a key of the pairing left unhandled
C14_Witness ==
    /\ pc = "failed"
    /\ Len(run.imports) = 1
    /\ tw_db[run.imports[1].uuid] = Some(run.imports[1])
    /\ Len(run.calls) >= 2
    /\ CallFailed(run.calls[Len(run.calls)])
    /\ IsSome(run.last.key)
    /\ run.i < Len(run.keys)

\* The stats the run had recorded once the first k printed caches were
\* handled: the payload of the last of them that carried one, the snapshot
\* of line 26 (Stats0) if none did
LatestAfter(k) ==
    LET withStats == {j \in 1..k : IsSome(run.printed[j].current)}
    IN  IF withStats = {} THEN Stats0
        ELSE Unwrap(run.printed[CHOOSE j \in withStats : \A j2 \in withStats : j2 <= j].current)

\* The sum, over the first k printed caches, of the difference of one metric
\* that the diff of the cache is computed from
RECURSIVE DeltaSum(_, _)
DeltaSum(metric, k) ==
    IF k = 0 THEN 0
    ELSE LET cache == run.printed[k]
             delta == IF IsSome(cache.current)
                      THEN Unwrap(cache.current)[metric] - cache.old[metric]
                      ELSE 0
         IN  DeltaSum(metric, k - 1) + delta

\* The drop messages of the first k printed caches, in the order printed
RECURSIVE PrintedDrops(_)
PrintedDrops(k) == IF k = 0 THEN << >> ELSE PrintedDrops(k - 1) \o run.printed[k].drops

\* The drop messages the answers to the first k calls carried into a cache
RECURSIVE AnsweredDrops(_)
AnsweredDrops(k) ==
    IF k = 0 THEN << >>
    ELSE LET c == run.calls[k]
         IN  AnsweredDrops(k - 1) \o
                (IF c.kind # "delete" /\ c.status = "ok" THEN DropsOf(c.answer.drop) ELSE << >>)

\* The calls of the steps that returned Ok
CallsOfOkSteps == IF pc = "failed" THEN Len(run.calls) - Len(run.last.calls) ELSE Len(run.calls)

-----------------------------------------------------------------------------
(* A stats cache on its own: a baseline, then mutations recorded one by    *)
(* one, then the diff rendered.  call holds the cache, the baseline it was *)
(* created with, the (stats, drop message) pairs passed to update in call  *)
(* order, and the lines get_diff_messages returned.                        *)

MaxUpdates == 2

\* The stats a cache is created with; hp, mp, exp and gp in hundredths
LedgerBaselines ==
    { [ hp |-> hp, max_hp |-> Some(50), mp |-> 3000, max_mp |-> Some(50), exp |-> exp,
        to_next_level |-> Some(100), gp |-> 10000, lvl |-> lvl ] :
        hp \in {4999, 5000}, exp \in {50, 1250}, lvl \in {1, 2} }

\* The stats the first answer may carry; the ceilings are optional fields
LedgerStats ==
    { [ hp |-> hp, max_hp |-> IF ceilings THEN Some(50) ELSE None,
        mp |-> mp, max_mp |-> IF ceilings THEN Some(50) ELSE None,
        exp |-> exp, to_next_level |-> IF ceilings THEN Some(100) ELSE None,
        gp |-> gp, lvl |-> lvl ] :
        hp \in {4999, 5000}, mp \in {2800, 3000}, exp \in {50, 1250},
        gp \in {10000, 10550}, lvl \in {1, 2}, ceilings \in BOOLEAN }

\* The stats a later answer may carry
LedgerLaterStats == {Stats1, Stats2}

DropMessages == {"d1", "d2"}

InitStats ==
    /\ \E stats \in LedgerBaselines :
          call = [ op |-> "ledger", base |-> stats, cache |-> StatsCacheNew(stats),
                   log |-> << >>, rendered |-> << >> ]
    /\ SyncIdle

\* cache.update(stats, drop_message)
RecordMutation ==
    /\ call.op = "ledger"
    /\ Len(call.log) < MaxUpdates
    /\ \E stats \in Opt(IF call.log = << >> THEN LedgerStats ELSE LedgerLaterStats),
          drop_message \in Opt(DropMessages) :
          call' = [ call EXCEPT
                      !.cache = StatsCacheUpdate(@, stats, drop_message),
                      !.log = Append(@, [stats |-> stats, drop |-> drop_message]) ]
    /\ UNCHANGED <<pc, tw_db, habitica, note_files, run, stats_cache_file>>

\* cache.get_diff_messages()
RenderDiff ==
    /\ call.op = "ledger"
    /\ call' = [call EXCEPT !.op = "rendered", !.rendered = get_diff_messages(call.cache)]
    /\ UNCHANGED <<pc, tw_db, habitica, note_files, run, stats_cache_file>>

NextStats == RecordMutation \/ RenderDiff

SpecStats == InitStats /\ [][NextStats]_vars

\* The drop messages passed in the first k calls, in call order
RECURSIVE PassedDrops(_)
PassedDrops(k) == IF k = 0 THEN << >> ELSE PassedDrops(k - 1) \o DropsOf(call.log[k].drop)

\* The stats payload of the last call that carried one, None if none did
LastPassedStats ==
    LET withStats == {k \in DOMAIN call.log : IsSome(call.log[k].stats)}
    IN  IF withStats = {} THEN None
        ELSE call.log[CHOOSE k \in withStats : \A k2 \in withStats : k2 <= k].stats

\* C16: after any sequence of updates of a stats cache, old is the baseline
\* it was created with, current is the stats payload of the last update that
\* carried one (None if none did), and drops holds the messages passed, in
\* call order; when current is None, get_diff_messages returns exactly those
\* messages.
C16_LedgerAfterUpdates ==
    /\ call.cache.old = call.base
    /\ call.cache.current = LastPassedStats
    /\ call.cache.drops = PassedDrops(Len(call.log))
    /\ (call.op = "rendered" /\ call.cache.current = None) =>
          call.rendered = DropLines(PassedDrops(Len(call.log)))

\* C16 witness: an update with stats and a message was followed by one with
\* a message alone, which left current in place
C16_Witness ==
    /\ call.op = "ledger"
    /\ Len(call.log) = 2
    /\ IsSome(call.log[1].stats)
    /\ call.log[2] = [stats |-> None, drop |-> Some("d1")]
    /\ call.log[1].drop = Some("d2")
    /\ call.cache.current = call.log[1].stats
    /\ call.cache.drops = <<"d2", "d1">>

\* C16 witness, second case: the diff of a cache that got messages only
C16_WitnessRendered ==
    /\ call.op = "rendered"
    /\ call.cache.current = None
    /\ call.rendered = <<DropLine("d2"), DropLine("d1")>>

\* The place of a line in the order Level, HP, MP, Exp, Gold, drop messages
LineRank(line) ==
    CASE line.kind \in {"LEVEL UP!", "LEVEL LOST!"} -> 1
      [] line.kind = "stat" /\ line.name = "HP" -> 2
      [] line.kind = "stat" /\ line.name = "MP" -> 3
      [] line.kind = "stat" /\ line.name = "Exp" -> 4
      [] line.kind = "stat" /\ line.name = "Gold" -> 5
      [] line.kind = "drop" -> 6

\* The lines of the rendered diff that have the given place
LinesOfRank(rank) == SelectSeq(call.rendered, LAMBDA line : LineRank(line) = rank)

\* The diff was rendered from a cache whose current is set
RenderedWithStats == call.op = "rendered" /\ IsSome(call.cache.current)

\* C17: get_diff_messages emits its lines in the order Level, HP, MP, Exp,
\* Gold, then the drop messages in recorded order; when the level of current
\* differs from the level of old it emits "LEVEL UP! (old -> new)" if the
\* level rose and "LEVEL LOST! (old -> new)" if it fell, and no Exp line;
\* when the level is the same it emits no level line.
C17_OrderAndLevel ==
    RenderedWithStats =>
        LET old == call.cache.old
            new == Unwrap(call.cache.current)
        IN  /\ \A i, j \in DOMAIN call.rendered :
                  i < j => LineRank(call.rendered[i]) <= LineRank(call.rendered[j])
            /\ \A rank \in 1..5 : Len(LinesOfRank(rank)) <= 1
            /\ LinesOfRank(6) = DropLines(call.cache.drops)
            /\ new.lvl > old.lvl =>
                  LinesOfRank(1) = <<[kind |-> "LEVEL UP!", old |-> old.lvl, new |-> new.lvl]>>
            /\ new.lvl < old.lvl =>
                  LinesOfRank(1) = <<[kind |-> "LEVEL LOST!", old |-> old.lvl, new |-> new.lvl]>>
            /\ new.lvl = old.lvl => LinesOfRank(1) = << >>
            /\ new.lvl # old.lvl => LinesOfRank(4) = << >>

\* C17 witness: the level rose from 1 to 2 while Exp fell from 12.5 to 0.5,
\* HP, MP and Gold changed and two messages were recorded
C17_Witness ==
    /\ RenderedWithStats
    /\ call.cache.old.lvl = 1
    /\ call.cache.old.exp = 1250
    /\ Unwrap(call.cache.current).exp = 50
    /\ Len(call.rendered) = 6
    /\ call.rendered[1] = [kind |-> "LEVEL UP!", old |-> 1, new |-> 2]
    /\ call.rendered[2].name = "HP"
    /\ call.rendered[3].name = "MP"
    /\ call.rendered[4].name = "Gold"
    /\ call.rendered[5] = DropLine("d1")
    /\ call.rendered[6] = DropLine("d2")

\* The line of one metric is in the rendered diff
HasLine(name) ==
    \E i \in DOMAIN call.rendered :
        call.rendered[i].kind = "stat" /\ call.rendered[i].name = name

C18_WitnessEmpty ==
    /\ RenderedWithStats
    /\ Unwrap(call.cache.current).mp = call.cache.old.mp
    /\ Unwrap(call.cache.current).gp = call.cache.old.gp
    /\ Len(call.log) = 1
    /\ call.rendered = << >>

\* C19: in the output of get_diff_messages only the HP line and the MP line
\* show a ceiling; the Exp line and the Gold line never do.
C19_CeilingOnHpMpOnly ==
    call.op = "rendered" =>
        \A i \in DOMAIN call.rendered :
            (call.rendered[i].kind = "stat" /\ call.rendered[i].name \in {"Exp", "Gold"}) =>
                call.rendered[i].max = None

-----------------------------------------------------------------------------
(* The hooks Taskwarrior runs around one command: on-add (handle_add) and  *)
(* on-modify (handle_modify) talk to Habitica and leave a stats cache in   *)
(* the file at stats_cache_path; on-exit (handle_exit) prints the diff of  *)
(* that cache and deletes the file.  A hook returns [ok, out, calls, file,   *)
(* saved, user_status]: the Result, the task JSON it prints, the remote    *)
(* calls it issued, the stats-cache file it leaves, whether it saved a     *)
(* cache, and the status of the answer to its get_user_stats request if    *)
(* it sent one.  The add hook runs on a task without note file; the note   *)
(* store of the modify hook is store = [file, recent, io_ok]: the note     *)
(* file of the task if any, whether it was written in the last 60 seconds, *)
(* and whether it can be read.                                             *)

MaxHooks == 3

\* HabiticaClient::get_user_stats; resp is the answer to GET /v4/user, stats
\* the Option<UserStats> it holds (Some when ok)
get_user_stats(resp) == [ok |-> resp.status = "ok", stats |-> resp.stats]

\* StatsCache::load on the file: Ok(None) when there is no file
StatsCacheLoad(file) == file

\* StatsCache::save: the file holds the cache
StatsCacheSave(cache) == Some(cache)

\* StatsCache::delete: the file is gone
StatsCacheDelete(file) == None

\* NotesManager::note_recently_modified; recent says whether the file is at most 60 seconds old
note_recently_modified(files, task, recent) ==
    IF IsSome(files[task.uuid]) THEN recent ELSE FALSE

\* The stats cache handle_modify works with (lines 55-56)
LoadOrCreate(file, user) ==
    IF IsSome(StatsCacheLoad(file)) THEN StatsCacheLoad(file)
    ELSE IF get_user_stats(user).ok
    THEN Some(StatsCacheNew(Unwrap(get_user_stats(user).stats)))
    ELSE None

\* The stats cache handle_add works with (lines 42-47), once get_user_stats
\* has answered
AddCache(task, file, user) ==
    IF is_completed(task.status)
    THEN Some(StatsCacheNew(Unwrap(get_user_stats(user).stats)))
    ELSE None

\* user is the answer to get_user_stats, resps the answers to the calls of the push
handle_add(task, file, user, resps) ==
    LET files == OpFiles(None)
        stats_cache == AddCache(task, file, user)
        asked == IF is_completed(task.status) THEN Some(user.status) ELSE None
        pushed == push_to_habitica(task, stats_cache, files, TRUE, resps)
    IN  IF is_completed(task.status) /\ ~get_user_stats(user).ok
        THEN [ ok |-> FALSE, out |-> None, calls |-> << >>, file |-> file, saved |-> FALSE,
               user_status |-> asked ]
        ELSE IF ~pushed.ok
        THEN [ ok |-> FALSE, out |-> None, calls |-> pushed.calls, file |-> file,
               saved |-> FALSE, user_status |-> asked ]
        ELSE [ ok |-> TRUE, out |-> Some(pushed.task), calls |-> pushed.calls,
               file |-> IF IsSome(pushed.cache) THEN StatsCacheSave(Unwrap(pushed.cache))
                        ELSE file,
               saved |-> IsSome(pushed.cache), user_status |-> asked ]

\* A task without note file
NoNote == [file |-> None, recent |-> FALSE, io_ok |-> TRUE]

handle_modify(old_task, new_task, file, user, resps, store) ==
    LET files == OpFiles(store.file)
        note_recently_changed == note_recently_modified(files, new_task, store.recent)
        old_note_annos == filter_note_annotations(old_task)
        new_note_annos == filter_note_annotations(new_task)
        note_content == read_note(files, new_task, store.io_ok).value
        old_h_opt == taskwarrior_to_habitica(old_task, note_content)
        new_h_opt == taskwarrior_to_habitica(new_task, note_content)
        stats_cache == LoadOrCreate(file, user)
        asked == IF IsSome(StatsCacheLoad(file)) THEN None ELSE Some(user.status)
        modified ==
            modify_on_habitica(old_task, new_task, stats_cache, files, store.io_ok, resps)
    IN  IF ~read_note(files, new_task, store.io_ok).ok
        THEN [ ok |-> FALSE, out |-> None, calls |-> << >>, file |-> file, saved |-> FALSE,
               user_status |-> None ]
        ELSE IF old_h_opt = new_h_opt /\ ~note_recently_changed /\ old_note_annos = new_note_annos
        THEN [ ok |-> TRUE, out |-> Some(new_task), calls |-> << >>, file |-> file,
               saved |-> FALSE, user_status |-> None ]
        ELSE IF ~modified.ok
        THEN [ ok |-> FALSE, out |-> None, calls |-> modified.calls, file |-> file,
               saved |-> FALSE, user_status |-> asked ]
        ELSE [ ok |-> TRUE, out |-> Some(modified.task), calls |-> modified.calls,
               file |-> IF IsSome(modified.cache)
                        THEN StatsCacheSave(Unwrap(modified.cache))
                        ELSE file,
               saved |-> IsSome(modified.cache), user_status |-> asked ]

\* Mutant: the exit hook prints the diff and leaves the file in place
handle_exit_KeepsFile(file) ==
    IF IsSome(StatsCacheLoad(file))
    THEN [ ok |-> TRUE, printed |-> get_diff_messages(Unwrap(StatsCacheLoad(file))),
           file |-> file ]
    ELSE [ok |-> TRUE, printed |-> << >>, file |-> file]

\* The lines handle_exit prints and the file it leaves
handle_exit(file) ==
    IF IsSome(StatsCacheLoad(file))
    THEN [ ok |-> TRUE, printed |-> get_diff_messages(Unwrap(StatsCacheLoad(file))),
           file |-> StatsCacheDelete(file) ]
    ELSE [ok |-> TRUE, printed |-> << >>, file |-> file]

\* The tasks a hook is given
HookTasks ==
    { Task(1, "a", st, Some(1), None, None, i, None, None, {}) :
        st \in {"pending", "completed", "deleted"}, i \in Opt({1}) }

\* What the service may answer to a call of a hook
HookResponses ==
    { ApiResponse("ok", 2, None, None),
      ApiResponse("ok", 2, Some(Stats1), Some("d1")),
      ApiResponse("http_error", 2, None, None) }

\* What the service may answer to get_user_stats
UserAnswers ==
    {ApiResponse("ok", 2, Some(Stats0), None), ApiResponse("http_error", 2, None, None)}

\* What a call contributed: its kind, its status and the payload of its answer
Answered(calls) ==
    [ j \in DOMAIN calls |->
        [ kind |-> calls[j].kind, status |-> calls[j].status,
          stats |-> calls[j].answer.stats, drop |-> calls[j].answer.drop ] ]

\* The hook that ran last: its kind, the status of the task it was given,
\* the file it found, its Result, whether it saved a stats cache, and the
\* status of the answer to its get_user_stats request
HookRecord(op, task, result) ==
    [ op |-> op, n |-> call.n + 1, status |-> task.status, before |-> stats_cache_file,
      ok |-> result.ok, answered |-> Answered(result.calls), saved |-> result.saved,
      user |-> result.user_status ]

InitHooks ==
    /\ call = [op |-> "none", n |-> 0]
    /\ SyncIdle

HookAdd ==
    /\ call.n < MaxHooks
    /\ \E task \in HookTasks, user \in UserAnswers, r1 \in HookResponses, r2 \in HookResponses :
        LET result == handle_add(task, stats_cache_file, user, <<r1, r2>>)
        IN  /\ call' = HookRecord("add", task, result)
            /\ stats_cache_file' = result.file
    /\ UNCHANGED <<pc, tw_db, habitica, note_files, run>>

HookModify ==
    /\ call.n < MaxHooks
    /\ \E old_task \in HookTasks, new_task \in HookTasks, user \in UserAnswers,
          r1 \in HookResponses, r2 \in HookResponses :
        LET result ==
                handle_modify(old_task, new_task, stats_cache_file, user, <<r1, r2>>, NoNote)
        IN  /\ call' = HookRecord("modify", new_task, result)
            /\ stats_cache_file' = result.file
    /\ UNCHANGED <<pc, tw_db, habitica, note_files, run>>

\* prev is the hook that ran before this one
HookExit ==
    /\ call.n < MaxHooks
    /\ LET result == handle_exit(stats_cache_file)
       IN  /\ call' = [ op |-> "exit", n |-> call.n + 1, before |-> stats_cache_file,
                        ok |-> result.ok, printed |-> result.printed, prev |-> call ]
           /\ stats_cache_file' = result.file
    /\ UNCHANGED <<pc, tw_db, habitica, note_files, run>>

NextHooks == HookAdd \/ HookModify \/ HookExit

SpecHooks == InitHooks /\ [][NextHooks]_vars

\* The drop messages the answers of a hook carried into its cache
RECURSIVE HookDrops(_, _)
HookDrops(answered, k) ==
    IF k = 0 THEN << >>
    ELSE HookDrops(answered, k - 1) \o
            (IF answered[k].kind # "delete" /\ answered[k].status = "ok"
             THEN DropsOf(answered[k].drop) ELSE << >>)

\* The stats the answers of a hook carried into its cache: the last of them, None if none
HookStats(answered) ==
    LET withStats == { k \in DOMAIN answered :
                          /\ answered[k].kind # "delete"
                          /\ answered[k].status = "ok"
                          /\ IsSome(answered[k].stats) }
    IN  IF withStats = {} THEN None
        ELSE answered[CHOOSE k \in withStats : \A k2 \in withStats : k2 <= k].stats

\* C20: when an add or modify hook that records stats finds a stats-cache
\* file, the file it leaves holds the baseline and the messages of the cache
\* it found, followed by the messages of its own answers, and the stats of
\* its own answers if any; the cache found is never replaced by a fresh one.
C20_HookMergesCache ==
    (call.op \in {"add", "modify"} /\ call.saved /\ IsSome(call.before)) =>
        /\ IsSome(stats_cache_file)
        /\ LET found == Unwrap(call.before)
               left == Unwrap(stats_cache_file)
           IN  /\ left.old = found.old
               /\ left.drops = found.drops \o HookDrops(call.answered, Len(call.answered))
               /\ left.current = IF IsSome(HookStats(call.answered))
                                 THEN HookStats(call.answered) ELSE found.current

\* The modify hook alone merges into the cache it finds
C20_ModifyMerges ==
    call.op = "modify" => C20_HookMergesCache

\* A modify hook found a cache holding a message, recorded stats and a
\* message of its own, and left both messages in the file
C20_ModifyWitness ==
    /\ call.op = "modify"
    /\ call.saved
    /\ IsSome(call.before)
    /\ Unwrap(call.before).drops = <<"d1">>
    /\ Unwrap(stats_cache_file).drops = <<"d1", "d1">>
    /\ Unwrap(stats_cache_file).current = Some(Stats1)

-----------------------------------------------------------------------------
(* The exit hook reports a saved cache once *)

\* The step is a run of the exit hook
ExitStep == call'.n = call.n + 1 /\ call'.op = "exit"

\* C21: an exit hook that finds a stats-cache file prints the diff of that
\* cache and leaves no file; one that finds no file prints nothing; both
\* succeed; an exit hook that runs right after another exit hook prints nothing.
C21_ExitReportsOnce ==
    [][ ExitStep =>
          /\ call'.ok
          /\ stats_cache_file' = None
          /\ IsSome(stats_cache_file) =>
                call'.printed = get_diff_messages(Unwrap(stats_cache_file))
          /\ ~IsSome(stats_cache_file) => call'.printed = << >>
          /\ call.op = "exit" => call'.printed = << >> ]_vars

\* An exit hook printed the diff of a saved cache, and the exit hook that
\* ran right after it printed nothing
C21_Witness ==
    /\ call.op = "exit"
    /\ call.prev.op = "exit"
    /\ IsSome(call.prev.before)
    /\ call.prev.printed # << >>
    /\ call.prev.prev.op \in {"add", "modify"}
    /\ call.prev.prev.saved
    /\ ~IsSome(call.before)
    /\ call.printed = << >>
    /\ call.ok

-----------------------------------------------------------------------------
(* Two hook invocations on one data directory.  Nothing in the code locks  *)
(* the stats-cache file, so the steps of two processes interleave freely:  *)
(* handle_modify loads the file (or asks for a baseline), then talks to    *)
(* Habitica and saves; handle_exit loads the file, then prints and deletes *)
(* it.  call.procs[p] is process p: [kind, pc, cache]; call.recorded       *)
(* counts the reward messages the modify hooks saved, call.reported the    *)
(* ones the exit hooks printed; call.overlapped says whether a process     *)
(* ever took a step while the other one was between its load and its       *)
(* save or delete.                                                         *)

Procs == {1, 2}

Other(p) == 3 - p

IdleProc == [kind |-> "none", pc |-> "idle", cache |-> None]

InitInterleaved ==
    /\ call = [ op |-> "hooks", n |-> 0, procs |-> [p \in Procs |-> IdleProc],
                recorded |-> 0, reported |-> 0, overlapped |-> FALSE ]
    /\ SyncIdle

\* Process p takes a step: its new state, and the new counters
ProcStep(p, proc, started, recorded, reported) ==
    [ call EXCEPT !.n = @ + started,
                  !.procs[p] = proc,
                  !.recorded = @ + recorded,
                  !.reported = @ + reported,
                  !.overlapped = @ \/ call.procs[Other(p)].pc = "loaded" ]

\* handle_modify up to line 56: the stats cache is loaded or created
ModifyLoad(p) ==
    /\ call.procs[p].pc = "idle"
    /\ call.n < MaxHooks
    /\ \E user \in UserAnswers :
        call' = ProcStep(p, [ kind |-> "modify", pc |-> "loaded",
                              cache |-> LoadOrCreate(stats_cache_file, user) ], 1, 0, 0)
    /\ UNCHANGED <<pc, tw_db, habitica, note_files, run, stats_cache_file>>

\* The old and the new task differ for Habitica: handle_modify goes past line 47
ModifyGoesOn(old_task, new_task) ==
    \/ taskwarrior_to_habitica(old_task, None) # taskwarrior_to_habitica(new_task, None)
    \/ filter_note_annotations(old_task) # filter_note_annotations(new_task)

\* handle_modify from line 59 on: the remote calls, then the save
ModifySave(p) ==
    /\ call.procs[p].kind = "modify"
    /\ call.procs[p].pc = "loaded"
    /\ \E old_task \in HookTasks, new_task \in HookTasks, r1 \in HookResponses, r2 \in HookResponses :
        /\ ModifyGoesOn(old_task, new_task)
        /\ LET found == call.procs[p].cache
               modified == modify_on_habitica(old_task, new_task, found, OpFiles(None), TRUE, <<r1, r2>>)
               saves == modified.ok /\ IsSome(modified.cache)
           IN  /\ stats_cache_file' = IF saves THEN StatsCacheSave(Unwrap(modified.cache))
                                      ELSE stats_cache_file
               /\ call' = ProcStep(p, IdleProc, 0,
                                   IF saves
                                   THEN Len(Unwrap(modified.cache).drops) - Len(Unwrap(found).drops)
                                   ELSE 0,
                                   0)
    /\ UNCHANGED <<pc, tw_db, habitica, note_files, run>>

\* handle_exit, line 8: without a file the hook is over
ExitLoad(p) ==
    /\ call.procs[p].pc = "idle"
    /\ call.n < MaxHooks
    /\ call' = ProcStep(p, IF IsSome(StatsCacheLoad(stats_cache_file))
                           THEN [ kind |-> "exit", pc |-> "loaded",
                                  cache |-> StatsCacheLoad(stats_cache_file) ]
                           ELSE IdleProc, 1, 0, 0)
    /\ UNCHANGED <<pc, tw_db, habitica, note_files, run, stats_cache_file>>

\* The reward messages among the lines printed
DropLineCount(lines) == Cardinality({ j \in DOMAIN lines : lines[j].kind = "drop" })

\* handle_exit, lines 10-16: the diff of the cache loaded is printed, the file deleted
ExitPrintDelete(p) ==
    /\ call.procs[p].kind = "exit"
    /\ call.procs[p].pc = "loaded"
    /\ call' = ProcStep(p, IdleProc, 0, 0,
                        DropLineCount(get_diff_messages(Unwrap(call.procs[p].cache))))
    /\ stats_cache_file' = StatsCacheDelete(stats_cache_file)
    /\ UNCHANGED <<pc, tw_db, habitica, note_files, run>>

NextInterleaved ==
    \E p \in Procs : ModifyLoad(p) \/ ModifySave(p) \/ ExitLoad(p) \/ ExitPrintDelete(p)

SpecInterleaved == InitInterleaved /\ [][NextInterleaved]_vars

\* No hook is between its load and its save or delete
Quiescent == \A p \in Procs : call.procs[p].pc = "idle"

\* The reward messages waiting in the file
WaitingDrops == IF IsSome(stats_cache_file) THEN Len(Unwrap(stats_cache_file).drops) ELSE 0

\* C22: whatever the interleaving of the load, save and delete steps of two
\* hooks, once both are over every reward message a modify hook saved has
\* either been printed by an exit hook or waits in the file, exactly once:
\* none is lost or overwritten, none is reported twice.
C22_InterleavedKeepsMessages ==
    Quiescent => call.reported + WaitingDrops = call.recorded

\* The same holds when no hook ever ran while another was between its load
\* and its save or delete
C22_SequentialKeepsMessages ==
    ~call.overlapped => C22_InterleavedKeepsMessages

\* Two modify hooks overlapped and a message one of them saved is gone
C22_LostMessage ==
    /\ Quiescent
    /\ call.overlapped
    /\ call.reported + WaitingDrops < call.recorded

\* A modify hook and an exit hook overlapped and a message was reported twice
C22_ReportedTwice ==
    /\ Quiescent
    /\ call.overlapped
    /\ call.reported + WaitingDrops > call.recorded

-----------------------------------------------------------------------------
(* 404 answers, under SpecOps *)

\* The calls of the operation that were answered 404
NotFoundCalls == { i \in DOMAIN OpCalls : OpCalls[i].status = "not_found" }

\* C23: a delete or scoring call answered 404 does not fail the operation:
\* it is the operation's last call and the operation returns Ok (after a
\* delete with the remote id cleared); the ledger after a scoring 404 is the
\* ledger as the calls before it left it, whatever the 404 answer holds.  An
\* update call answered 404 fails the operation, which issues no further call.
C23_NotFoundTolerated ==
    call.op \in {"push", "modify"} =>
        \A i \in NotFoundCalls :
            /\ OpCalls[i].kind \in {"delete", "score"} =>
                  /\ i = Len(OpCalls)
                  /\ call.result.ok
            /\ OpCalls[i].kind = "delete" => call.result.task.habitica_uuid = None
            /\ OpCalls[i].kind = "score" =>
                  call.result.cache = LedgerAfter(call.cache, SubSeq(call.resps, 1, i - 1))
            /\ OpCalls[i].kind = "update" =>
                  /\ i = Len(OpCalls)
                  /\ ~call.result.ok

\* An update that brought stats was followed by a scoring call answered 404
\* with stats and a message in it: the operation succeeded and the ledger
\* holds what the update brought, nothing of the 404 answer
C23_Witness ==
    /\ call.op = "modify"
    /\ Len(OpCalls) = 2
    /\ OpCalls[1].kind = "update"
    /\ call.resps[1].stats = Some(Stats2)
    /\ OpCalls[2].kind = "score"
    /\ OpCalls[2].status = "not_found"
    /\ call.resps[2].stats = Some(Stats1)
    /\ call.resps[2].drop = Some("d1")
    /\ call.result.ok
    /\ IsSome(call.result.cache)
    /\ Unwrap(call.result.cache).current = Some(Stats2)
    /\ Unwrap(call.result.cache).drops = <<"d2">>

\* A delete call answered 404: the modification succeeded
C23_WitnessDelete ==
    /\ call.op = "modify"
    /\ Len(OpCalls) = 1
    /\ OpCalls[1].kind = "delete"
    /\ OpCalls[1].status = "not_found"
    /\ call.result.ok

\* An update call answered 404: the operation failed
C23_WitnessUpdate ==
    /\ call.op = "push"
    /\ Len(OpCalls) = 1
    /\ OpCalls[1].kind = "update"
    /\ OpCalls[1].status = "not_found"
    /\ ~call.result.ok

-----------------------------------------------------------------------------
(* Failures of remote calls in the hooks *)

\* The calls of the hook that failed
FailedCalls == { j \in DOMAIN call.answered : CallFailed(call.answered[j]) }

\* The get_user_stats request of the hook failed
UserStatsFailed == IsSome(call.user) /\ Unwrap(call.user) # "ok"

\* C24: a hook whose get_user_stats request fails returns an error without
\* any further call; a hook one of whose task calls fails (a 404 to a delete
\* or a scoring call apart) returns an error, and the failed call is its
\* last: it is not tried again and nothing follows it.
C24_RemoteFailureIsError ==
    call.op \in {"add", "modify"} =>
        /\ UserStatsFailed => (~call.ok /\ call.answered = << >>)
        /\ FailedCalls # {} => (~call.ok /\ FailedCalls = {Len(call.answered)})

\* The same without the get_user_stats request of the modify hook
C24_TaskCallFailureIsError ==
    call.op \in {"add", "modify"} =>
        /\ (call.op = "add" /\ UserStatsFailed) => (~call.ok /\ call.answered = << >>)
        /\ FailedCalls # {} => (~call.ok /\ FailedCalls = {Len(call.answered)})

\* A modify hook whose get_user_stats request failed went on and succeeded
C24_ModifyIgnoresStatsFailure ==
    /\ call.op = "modify"
    /\ UserStatsFailed
    /\ call.ok
    /\ call.answered # << >>
    /\ ~call.saved

-----------------------------------------------------------------------------
(* habitica/client.rs on the wire.  Every function of HabiticaClient calls  *)
(* rate_limit and then sends its one request; the client is used by one    *)
(* thread.  call.log is what the process did, in order: a "sleep" event    *)
(* for each thread::sleep and a "send" event for each request, each with   *)
(* the time (in seconds) at which it began; call.clock is the time now.    *)

MaxRequests == 3

\* Duration::from_secs(1)
RateLimitSeconds == 1

\* Mutant: rate_limit returns at once
rate_limit_Instant(clock) ==
    [ clock |-> clock,
      event |-> [ev |-> "sleep", kind |-> "none", secs |-> 0, at |-> clock] ]

\* HabiticaClient::rate_limit: the thread sleeps, the clock moves on
rate_limit(clock) ==
    [ clock |-> clock + RateLimitSeconds,
      event |-> [ev |-> "sleep", kind |-> "none", secs |-> RateLimitSeconds, at |-> clock] ]

\* request.send() of the function kind
Send(kind, clock) == [ev |-> "send", kind |-> kind, secs |-> 0, at |-> clock]

InitClient ==
    /\ call = [op |-> "client", clock |-> 0, log |-> << >>]
    /\ SyncIdle

\* The requests sent so far
Sent == { i \in DOMAIN call.log : call.log[i].ev = "send" }

\* A client function: self.rate_limit(), then the request
ClientCall(kind) ==
    /\ call.op = "client"
    /\ Cardinality(Sent) < MaxRequests
    /\ LET waited == rate_limit(call.clock)
       IN  call' = [ call EXCEPT !.clock = waited.clock,
                                 !.log = @ \o <<waited.event, Send(kind, waited.clock)>> ]
    /\ UNCHANGED <<pc, tw_db, habitica, note_files, run, stats_cache_file>>

ClientGetTasks == ClientCall("get_tasks")

ClientCreateTask == ClientCall("create")

ClientUpdateTask == ClientCall("update")

ClientDeleteTask == ClientCall("delete")

ClientScoreTask == ClientCall("score")

ClientGetUserStats == ClientCall("get_user_stats")

NextClient ==
    \/ ClientGetTasks
    \/ ClientCreateTask
    \/ ClientUpdateTask
    \/ ClientDeleteTask
    \/ ClientScoreTask
    \/ ClientGetUserStats

SpecClient == InitClient /\ [][NextClient]_vars

\* C25: every request sent (task list, user stats, create, update, delete,
\* score) comes right after a delay of the fixed length that no other
\* request comes after, so two requests are never less than that delay apart.
C25_DelayBeforeEveryRequest ==
    /\ \A i \in Sent :
          /\ i > 1
          /\ call.log[i - 1].ev = "sleep"
          /\ call.log[i - 1].secs = RateLimitSeconds
          /\ call.log[i].at = call.log[i - 1].at + RateLimitSeconds
    /\ \A i \in Sent, j \in Sent :
          i < j => call.log[j].at - call.log[i].at >= RateLimitSeconds

\* Three requests of different kinds were sent, each after its own delay
C25_Witness ==
    /\ Cardinality(Sent) = 3
    /\ Len(call.log) = 6
    /\ call.log[2].kind = "get_user_stats"
    /\ call.log[4].kind = "update"
    /\ call.log[6].kind = "score"
    /\ call.log[5].ev = "sleep"
    /\ call.log[6].at = 3

-----------------------------------------------------------------------------
(* SpecModifyHook: handle_modify applied once to every pair of the tasks   *)
(* below, with and without a stats-cache file and a note file.             *)

\* The old and the new task Taskwarrior hands to the hook
ModifyTasks ==
    { Task(1, "a", st, Some(m), None, a, i, None, None, e) :
        st \in {"pending", "completed", "deleted"}, m \in 1..MaxTime,
        a \in {None, Some(<<PlainAnnotation>>)}, i \in Opt({1}), e \in {{}, {"x"}} }

\* The note store of the new task
ModifyStores ==
    { [file |-> f, recent |-> r, io_ok |-> TRUE] :
        f \in Opt({<<"n">>}), r \in BOOLEAN }

\* The stats-cache file the hook finds
ModifyFiles == {None, Some(StatsCacheNew(Stats0))}

InitModifyHook ==
    /\ call = [op |-> "none"]
    /\ SyncIdle

ApplyHandleModify ==
    /\ call.op = "none"
    /\ \E old_task \in ModifyTasks, new_task \in ModifyTasks, file \in ModifyFiles,
          user \in UserAnswers, r1 \in HookResponses, r2 \in HookResponses,
          store \in ModifyStores :
        LET result == handle_modify(old_task, new_task, file, user, <<r1, r2>>, store)
        IN  /\ call' = [ op |-> "handle_modify", old |-> old_task, new |-> new_task,
                         before |-> file, store |-> store, result |-> result ]
            /\ stats_cache_file' = result.file
    /\ UNCHANGED <<pc, tw_db, habitica, note_files, run>>

NextModifyHook == ApplyHandleModify

SpecModifyHook == InitModifyHook /\ [][NextModifyHook]_vars

\* The old and the new task are the same but for modified and the extra fields
SameButStampAndExtra ==
    [call.old EXCEPT !.modified = call.new.modified, !.extra = call.new.extra] = call.new

\* The hook made no remote call, left the stats cache alone and echoed the new task
EchoedUnchanged ==
    /\ call.result.ok
    /\ call.result.calls = << >>
    /\ call.result.user_status = None
    /\ ~call.result.saved
    /\ stats_cache_file = call.before
    /\ call.result.out = Some(call.new)

\* C26: when the old and the new task differ at most in modified and in
\* their extra fields, and the note file was not written recently, the
\* modify hook makes no remote call, does not touch the stats cache and
\* prints the new task as it received it.
C26_StampAndExtraIgnored ==
    (call.op = "handle_modify" /\ SameButStampAndExtra /\ ~call.store.recent) =>
        EchoedUnchanged

\* The same for tasks that differ at most in their extra fields
C26_ExtraIgnored ==
    (call.op = "handle_modify" /\ SameButStampAndExtra /\ ~call.store.recent
        /\ call.old.modified = call.new.modified) =>
        EchoedUnchanged

\* Two Pending tasks that differ in modified only: the hook sent an update
C26_StampAloneUpdates ==
    /\ call.op = "handle_modify"
    /\ call.old.status = "pending"
    /\ call.new = [call.old EXCEPT !.modified = Some(2)]
    /\ call.old.modified = Some(1)
    /\ call.store.file = None
    /\ Len(call.result.calls) = 1
    /\ call.result.calls[1].kind = "update"

-----------------------------------------------------------------------------
(* main.rs: run.  The commands of the binary, run one after another; the   *)
(* hooks are started by Taskwarrior, sync by the user.  call.env is the    *)
(* environment variable TASK2HABITICA_RUNNING of the process tree the next *)
(* command starts in: sync sets it, and the hooks that the imports of the  *)
(* sync command trigger inherit it.  A line of standard input is [fmt,     *)
(* task]: the task it encodes and how it is laid out ("tw" as Taskwarrior  *)
(* writes it, "serde" as serde_json::to_string does).                      *)

Line(fmt, task) == [fmt |-> fmt, task |-> task]

\* serde_json::from_str
from_str(line) == line.task

\* serde_json::to_string
to_string(task) == Line("serde", task)

\* The lines Taskwarrior hands to a hook
HookLines == { Line(fmt, task) : fmt \in {"tw", "serde"}, task \in HookTasks }

\* Mutant: the flag is never seen
is_sync_running_Never(env) == FALSE

\* env::var("TASK2HABITICA_RUNNING").is_ok()
is_sync_running(env) == IsSome(env)

\* env::set_var("TASK2HABITICA_RUNNING", "1")
set_sync_env == Some("1")

\* What a hook that only passes its input through leaves: the line printed,
\* no call, the stats-cache file as it was
PassThrough(line, file) ==
    [ ok |-> TRUE, out |-> Some(line), calls |-> << >>, file |-> file, handled |-> FALSE ]

\* What a hook that ran its handler leaves
Handled(result) ==
    [ ok |-> result.ok,
      out |-> IF IsSome(result.out) THEN Some(to_string(Unwrap(result.out))) ELSE None,
      calls |-> result.calls, file |-> result.file, handled |-> TRUE ]

\* run, Commands::Add
run_add(env, line, file, user, resps) ==
    IF is_sync_running(env) THEN PassThrough(line, file)
    ELSE Handled(handle_add(from_str(line), file, user, resps))

\* run, Commands::Modify
run_modify(env, old_line, new_line, file, user, resps) ==
    IF is_sync_running(env) THEN PassThrough(new_line, file)
    ELSE Handled(handle_modify(from_str(old_line), from_str(new_line), file, user, resps, NoNote))

\* The command that ran last
MainRecord(op, line, result) ==
    [ op |-> op, n |-> call.n + 1, env |-> call.env, line |-> line,
      before |-> stats_cache_file, result |-> result ]

InitMain ==
    /\ call = [op |-> "none", n |-> 0, env |-> None]
    /\ SyncIdle

MainAdd ==
    /\ call.n < MaxHooks
    /\ \E line \in HookLines, user \in UserAnswers, r1 \in HookResponses, r2 \in HookResponses :
        LET result == run_add(call.env, line, stats_cache_file, user, <<r1, r2>>)
        IN  /\ call' = MainRecord("add", Some(line), result)
            /\ stats_cache_file' = result.file
    /\ UNCHANGED <<pc, tw_db, habitica, note_files, run>>

MainModify ==
    /\ call.n < MaxHooks
    /\ \E old_line \in HookLines, new_line \in HookLines, user \in UserAnswers,
          r1 \in HookResponses, r2 \in HookResponses :
        LET result ==
                run_modify(call.env, old_line, new_line, stats_cache_file, user, <<r1, r2>>)
        IN  /\ call' = MainRecord("modify", Some(new_line), result)
            /\ stats_cache_file' = result.file
    /\ UNCHANGED <<pc, tw_db, habitica, note_files, run>>

\* Commands::Exit: handle_exit whatever the flag
MainExit ==
    /\ call.n < MaxHooks
    /\ LET exited == handle_exit(stats_cache_file)
       IN  /\ call' = MainRecord("exit", None,
                                 [ ok |-> exited.ok, out |-> None, calls |-> << >>,
                                   file |-> exited.file, handled |-> TRUE ])
           /\ stats_cache_file' = exited.file
    /\ UNCHANGED <<pc, tw_db, habitica, note_files, run>>

\* Commands::Sync, line 81: the flag is set before handle_sync starts
MainSyncStarts ==
    /\ ~is_sync_running(call.env)
    /\ call' = [op |-> "sync", n |-> call.n, env |-> set_sync_env]
    /\ UNCHANGED <<pc, tw_db, habitica, note_files, run, stats_cache_file>>

\* The sync process is over, and its environment with it
MainSyncReturns ==
    /\ IsSome(call.env)
    /\ call' = [op |-> "none", n |-> call.n, env |-> None]
    /\ UNCHANGED <<pc, tw_db, habitica, note_files, run, stats_cache_file>>

NextMain == MainAdd \/ MainModify \/ MainExit \/ MainSyncStarts \/ MainSyncReturns

SpecMain == InitMain /\ [][NextMain]_vars

\* C27: an add or modify hook started while the flag is set prints the task
\* line it was given (the new one for modify) as it is, succeeds, makes no
\* remote call, does not run the handler that reads and writes the stats
\* cache, and leaves the stats-cache file as it found it.
C27_PassThroughWhileSyncRuns ==
    (call.op \in {"add", "modify"} /\ IsSome(call.env)) =>
        /\ call.result.ok
        /\ call.result.out = call.line
        /\ call.result.calls = << >>
        /\ ~call.result.handled
        /\ stats_cache_file = call.before

\* While the flag was set, the modify hook of a completed task given in
\* Taskwarrior's layout found a stats-cache file and passed the line through
C27_Witness ==
    /\ call.op = "modify"
    /\ IsSome(call.env)
    /\ Unwrap(call.line).fmt = "tw"
    /\ Unwrap(call.line).task.status = "completed"
    /\ IsSome(call.before)
    /\ call.result.out = call.line
    /\ call.result.calls = << >>
    /\ stats_cache_file = call.before

\* Without the flag the same hook talks to Habitica
C27_WitnessNoFlag ==
    /\ call.op = "add"
    /\ ~IsSome(call.env)
    /\ call.result.handled
    /\ call.result.calls # << >>

-----------------------------------------------------------------------------
(* The conversion inside push_to_habitica, under SpecOps *)

\* C28: taskwarrior_to_habitica gives None exactly for the statuses Deleted
\* and Recurring; push_to_habitica on such a task (its note file readable)
\* makes no remote call, returns Ok with the task as it was and leaves the
\* ledger as it was; for every other task the remote task it sends has
\* is_due false, completed true exactly for the status Completed, and the
\* remote id of the local task.
C28_ConversionOnPush ==
    (call.op = "push" /\ ~NoteReadFailed) =>
        /\ taskwarrior_to_habitica(call.tw, call.file) = None
              <=> call.tw.status \in {"deleted", "recurring"}
        /\ call.tw.status \in {"deleted", "recurring"} =>
              /\ OpCalls = << >>
              /\ call.result.ok
              /\ call.result.task = call.tw
              /\ call.result.cache = call.cache
        /\ call.tw.status \notin {"deleted", "recurring"} =>
              /\ Len(OpCalls) >= 1
              /\ OpCalls[1].body = taskwarrior_to_habitica(call.tw, call.file)
              /\ Unwrap(OpCalls[1].body).is_due = FALSE
              /\ Unwrap(OpCalls[1].body).completed = (call.tw.status = "completed")
              /\ Unwrap(OpCalls[1].body).id = call.tw.habitica_uuid

\* A Recurring task with a remote id and a ledger was pushed: nothing happened
C28_Witness ==
    /\ call.op = "push"
    /\ call.tw.status = "recurring"
    /\ IsSome(call.tw.habitica_uuid)
    /\ IsSome(call.cache)
    /\ OpCalls = << >>
    /\ call.result.ok
    /\ call.result.task = call.tw

\* A Waiting task with a remote id was pushed as a task that is not completed
C28_WitnessWaiting ==
    /\ call.op = "push"
    /\ call.tw.status = "waiting"
    /\ call.tw.habitica_uuid = Some(2)
    /\ Len(OpCalls) = 1
    /\ OpCalls[1].kind = "update"
    /\ ~Unwrap(OpCalls[1].body).completed
    /\ Unwrap(OpCalls[1].body).id = Some(2)

-----------------------------------------------------------------------------
(* Effective status and difficulty buckets, under SpecConv *)

\* C29: the effective status of a remote task of type Daily is Pending
\* exactly when the task is not completed and is due today, and Completed
\* otherwise; for every other type it is Completed exactly when the completed
\* flag is set, and Pending otherwise.
C29_EffectiveStatus ==
    call.op = "effective_status" =>
        /\ call.result \in {"pending", "completed"}
        /\ call.h.task_type = "daily" =>
              (call.result = "pending" <=> (~call.h.completed /\ call.h.is_due))
        /\ call.h.task_type # "daily" =>
              (call.result = "completed" <=> call.h.completed)

\* A daily that is neither completed nor due today is Completed
C29_Witness ==
    /\ call.op = "effective_status"
    /\ call.h.task_type = "daily"
    /\ ~call.h.completed
    /\ ~call.h.is_due
    /\ call.result = "completed"

\* A habit that is due today but not completed is Pending
C29_WitnessOther ==
    /\ call.op = "effective_status"
    /\ call.h.task_type = "habit"
    /\ ~call.h.completed
    /\ call.h.is_due
    /\ call.result = "pending"

\* The priority is more than 0.01 away from 0.1, 1.0 and 1.5
FarFromLowerBuckets(p) == \A c \in {100, 1000, 1500} : Abs(p - c) > 10

\* C30: decoding the priority a difficulty encodes to gives the difficulty
\* back; encoding the difficulty decoded from a canonical priority gives the
\* priority back; decoding always yields one of the four difficulties, and
\* yields Hard for every priority more than 0.01 away from 0.1, 1.0 and 1.5.
C30_DifficultyRoundTrip ==
    call.op = "difficulty" =>
        /\ call.decoded_encoded = call.d
        /\ call.priority \in CanonicalPriorities => call.encoded_decoded = call.priority
        /\ call.decoded \in TaskDifficulty
        /\ FarFromLowerBuckets(call.priority) => call.decoded = "hard"

\* Medium encodes to 1.5 and 1.5 decodes to Medium
C30_Witness ==
    /\ call.op = "difficulty"
    /\ call.d = "medium"
    /\ call.encoded = 1500
    /\ call.priority = 1500
    /\ call.decoded = "medium"
    /\ call.encoded_decoded = 1500

\* A priority between the buckets decodes to Hard, one near a bucket does not
C30_WitnessHard ==
    /\ call.op = "difficulty"
    /\ call.priority = 500
    /\ call.decoded = "hard"

C30_WitnessNear ==
    /\ call.op = "difficulty"
    /\ call.priority = 1009
    /\ call.decoded = "easy"

-----------------------------------------------------------------------------
(* Missing timestamps in resolve, under SpecConv *)

\* C31: for a pair that is not equivalent, when the local task has no
\* timestamp and the remote one has a timestamp earlier than the clock read,
\* resolve gives UseTaskwarrior; when the remote task has no timestamp and
\* the local one has a timestamp earlier than the clock read, it gives
\* UseHabitica.
C31_UnstampedSideWins ==
    (call.op = "resolve" /\ ~tasks_are_equivalent(call.tw, call.h)) =>
        /\ ( /\ ~IsSome(call.tw.modified)
             /\ IsSome(call.h.updated_at)
             /\ Unwrap(call.h.updated_at) < Unwrap(call.now_tw) ) =>
                call.result = "UseTaskwarrior"
        /\ ( /\ ~IsSome(call.h.updated_at)
             /\ IsSome(call.tw.modified)
             /\ Unwrap(call.tw.modified) < Unwrap(call.now_h) ) =>
                call.result = "UseHabitica"

\* A stamped local task and an unstamped remote one, resolved for the remote
C31_Witness ==
    /\ call.op = "resolve"
    /\ ~tasks_are_equivalent(call.tw, call.h)
    /\ call.tw.modified = Some(1)
    /\ call.h.updated_at = None
    /\ call.now_h = Some(2)
    /\ call.result = "UseHabitica"

\* An unstamped local task and a stamped remote one, resolved for the local
C31_WitnessLocal ==
    /\ call.op = "resolve"
    /\ ~tasks_are_equivalent(call.tw, call.h)
    /\ call.tw.modified = None
    /\ call.h.updated_at = Some(1)
    /\ call.now_tw = Some(2)
    /\ call.result = "UseTaskwarrior"

\* C32: two evaluations of resolve on the same pair give the same outcome,
\* whatever the clock reads each of them makes for a missing timestamp.
C32_ResolveDeterministic ==
    call.op = "resolve_twice" => call.first = call.second

\* The same for pairs in which both tasks carry a timestamp
C32_DeterministicWhenStamped ==
    (call.op = "resolve_twice" /\ IsSome(call.tw.modified) /\ IsSome(call.h.updated_at)) =>
        call.first = call.second

\* Two unstamped tasks: the local side won when both reads fell in one
\* tick, the remote side when the clock moved between the two reads
C32_TickDecides ==
    /\ call.op = "resolve_twice"
    /\ call.tw.modified = None
    /\ call.h.updated_at = None
    /\ call.reads = <<Some(1), Some(1), Some(1), Some(2)>>
    /\ call.first = "UseTaskwarrior"
    /\ call.second = "UseHabitica"

-----------------------------------------------------------------------------
(* pull_from_habitica, under SpecConv *)

\* The annotations of a task, as a list
AnnotationsOf(task) == IF IsSome(task.annotations) THEN Unwrap(task.annotations) ELSE << >>

\* The positions of the note annotations of a task
NotePositions(task) ==
    { j \in DOMAIN AnnotationsOf(task) : AnnotationsOf(task)[j].prefixed }

C33_WitnessFresh ==
    /\ call.op = "pull"
    /\ call.result.ok
    /\ ~IsSome(call.existing)
    /\ call.env.fresh = 3
    /\ call.result.task.uuid = 3

\* C34: the task pull_from_habitica returns for a remote task with an id is
\* equivalent to that remote task, whatever its type, priority, completed
\* flag and due-today flag, with or without an existing local task.
C34_PulledIsEquivalent ==
    (call.op = "pull" /\ call.result.ok /\ IsSome(call.h.id)) =>
        tasks_are_equivalent(call.result.task, call.h)

\* The same for a remote task with a canonical priority that is not a daily
\* both not completed and not due today
C34_PulledCanonicalIsEquivalent ==
    ( /\ call.op = "pull"
      /\ call.result.ok
      /\ IsSome(call.h.id)
      /\ call.h.priority \in CanonicalPriorities
      /\ call.h.task_type = "daily" => (call.h.completed \/ call.h.is_due) ) =>
        tasks_are_equivalent(call.result.task, call.h)

\* A remote task with priority 1.2 was pulled as Hard
C34_OddPriority ==
    /\ call.op = "pull"
    /\ call.result.ok
    /\ call.h.priority = 1200
    /\ call.result.task.habitica_difficulty = Some("hard")
    /\ ~tasks_are_equivalent(call.result.task, call.h)

\* A daily that is neither completed nor due today was pulled as Completed
C34_DailyNotDue ==
    /\ call.op = "pull"
    /\ call.result.ok
    /\ call.h.task_type = "daily"
    /\ ~call.h.completed
    /\ ~call.h.is_due
    /\ call.result.task.status = "completed"
    /\ ~tasks_are_equivalent(call.result.task, call.h)

-----------------------------------------------------------------------------
(* SpecRuns: sync runs in sequence (commands/sync.rs, handle_sync called   *)
(* again on what the run before left).  The database and the note store    *)
(* are those the run before left.  The account the next run lists is the   *)
(* account of the run before plus the tasks its create calls stored:       *)
(* create_task returns the stored task.  A run that issued an update, a    *)
(* delete or a scoring call is not followed, since the code does not say   *)
(* what the account holds after such a call.  call keeps the log of the    *)
(* finished runs.                                                          *)

MaxRuns == 2

RunLocals ==
    {None} \cup
    { Some(Task(1, "a", st, Some(1), None, None, i, None, None, {})) :
        st \in {"pending", "completed", "deleted"}, i \in Opt({1}) }

RunRemotes ==
    {None} \cup
    { Some(HabiticaTask(Some(1), "a", notes, t, 1000, c, None, Some(m), d)) :
        notes \in {<< >>, <<"n">>}, t \in {"todo", "daily"}, c \in BOOLEAN,
        m \in Times, d \in BOOLEAN }

RunNotes == {None, Some(<<"m">>)}

InitRuns ==
    /\ call = [op |-> "runs", log |-> << >>]
    /\ pc = "start"
    /\ \E l1 \in RunLocals :
          tw_db = [u \in Uuids |-> IF u = 1 THEN l1 ELSE None]
    /\ \E r1 \in RunRemotes :
          habitica = [i \in Ids |-> IF i = 1 THEN r1 ELSE None]
    /\ \E f \in RunNotes :
          note_files = [u \in Uuids |-> IF u = 1 /\ IsSome(tw_db[1]) THEN f ELSE None]
    /\ run = << >>
    /\ stats_cache_file = None

\* The create calls of a run, in the order they were issued
CreateCalls(calls) ==
    LET IsCreate(c) == c.kind = "create"
    IN  SelectSeq(calls, IsCreate)

\* The account after the create calls of a run: the k-th call stored its
\* task under the k-th new id when it was answered with success
AccountAfter(account, calls) ==
    LET created == CreateCalls(calls)
    IN  [ i \in 1..(Len(account) + Len(created)) |->
            IF i <= Len(account) THEN account[i]
            ELSE IF created[i - Len(account)].status = "ok"
                 THEN Some([Unwrap(created[i - Len(account)].body) EXCEPT !.id = Some(i)])
                 ELSE None ]

\* The uuids of the local tasks for which a create call of the run succeeded:
\* those imported with a new remote id, and the one of a failed last step
PushedIn(r) ==
    { r.imports[j].uuid :
        j \in { k \in DOMAIN r.imports :
                  /\ IsSome(r.imports[k].habitica_uuid)
                  /\ Unwrap(r.imports[k].habitica_uuid) > Len(habitica) } }
    \cup ( IF /\ r.last.kind = "local_only"
              /\ ~r.last.ok
              /\ \E j \in DOMAIN r.last.calls :
                    r.last.calls[j].kind = "create" /\ r.last.calls[j].status = "ok"
           THEN {Unwrap(r.last.tw).uuid}
           ELSE {} )

\* What the log keeps of a finished run
RunRecord ==
    [ pc |-> pc, calls |-> run.calls, imports |-> run.imports, last |-> run.last,
      pushed |-> PushedIn(run) ]

\* handle_sync is called again
Restart ==
    /\ call.op = "runs"
    /\ pc \in {"done", "failed"}
    /\ Len(call.log) + 1 < MaxRuns
    /\ \A j \in DOMAIN run.calls : run.calls[j].kind = "create"
    /\ call' = [call EXCEPT !.log = Append(@, RunRecord)]
    /\ pc' = "start"
    /\ habitica' = AccountAfter(habitica, run.calls)
    /\ run' = << >>
    /\ UNCHANGED <<tw_db, note_files, stats_cache_file>>

NextRuns ==
    \/ TakeSnapshots
    \/ PushLocalOnly
    \/ BuildPairing
    \/ PairCreatedOnHabitica
    \/ PairDeletedOnHabitica
    \/ PairNoChange
    \/ PairUseHabitica
    \/ PairUseTaskwarrior
    \/ Finish
    \/ Restart

SpecRuns == InitRuns /\ [][NextRuns]_vars

-----------------------------------------------------------------------------
(* Claims checked under SpecRuns *)

\* The run before this one returned Ok
AfterCompletedRun ==
    /\ call.op = "runs"
    /\ Len(call.log) >= 1
    /\ call.log[Len(call.log)].pc = "done"
    /\ pc \in {"push_local", "pair", "done", "failed"}

\* The last step handled a pair present on both sides
LastStepOnPair == IsSome(run.last.tw) /\ IsSome(run.last.h)

\* C35: a sync run that follows a run that completed without error, with no
\* change from outside in between, classifies every pair present on both
\* sides as NoChange, issues no remote call and imports nothing
C35_SecondRunIdle ==
    AfterCompletedRun =>
        /\ run.calls = << >>
        /\ run.imports = << >>
        /\ LastStepOnPair => run.last.kind = "no_change"

\* The same when the account holds no daily that is neither completed nor
\* due today
C35_SecondRunIdleWithoutIdleDaily ==
    ( /\ AfterCompletedRun
      /\ \A i \in DOMAIN habitica :
            IsSome(habitica[i]) =>
                LET h == Unwrap(habitica[i])
                IN  h.task_type = "daily" => (h.completed \/ h.is_due) ) =>
        /\ run.calls = << >>
        /\ run.imports = << >>
        /\ LastStepOnPair => run.last.kind = "no_change"

\* A second run found the pair of the first run equal and did nothing
C35_Converged ==
    /\ AfterCompletedRun
    /\ pc = "done"
    /\ run.last.kind = "no_change"
    /\ call.log[1].imports # << >>

\* The loop is at a pair that resolve answers UseTaskwarrior for
AtUseTaskwarriorPair ==
    /\ AtKey
    /\ IsSome(h_task_opt) /\ IsSome(tw_task_opt)
    /\ CurrentResolution = "UseTaskwarrior"

\* The text of a note file, empty when there is no file
NoteTextOf(file) == IF IsSome(file) THEN Unwrap(file) ELSE << >>

\* C36: a step of the UseTaskwarrior arm that returns Ok leaves the note file
\* of the local task as it was, and the notes of the update it sends are the
\* text that file had before the step
C36_LocalNoteWins ==
    [][ (AtUseTaskwarriorPair /\ pc' = "pair") =>
            LET u == Unwrap(tw_task_opt).uuid
            IN  /\ note_files'[u] = note_files[u]
                /\ \A j \in DOMAIN run'.last.calls :
                      run'.last.calls[j].kind = "update" =>
                          Unwrap(run'.last.calls[j].body).notes = NoteTextOf(note_files[u])
      ]_vars

\* The same when the remote notes are the text of the local note file
C36_EqualNotesKept ==
    [][ ( /\ AtUseTaskwarriorPair
          /\ pc' = "pair"
          /\ Unwrap(h_task_opt).notes = NoteTextOf(note_files[Unwrap(tw_task_opt).uuid]) ) =>
            LET u == Unwrap(tw_task_opt).uuid
            IN  /\ NoteTextOf(note_files'[u]) = NoteTextOf(note_files[u])
                /\ \A j \in DOMAIN run'.last.calls :
                      run'.last.calls[j].kind = "update" =>
                          Unwrap(run'.last.calls[j].body).notes = NoteTextOf(note_files[u])
      ]_vars

\* The local side won, and the note file and the update carry the remote notes
C36_RemoteNoteSent ==
    /\ call.op = "runs"
    /\ pc = "pair"
    /\ run.last.kind = "use_taskwarrior"
    /\ Unwrap(run.last.h).notes = <<"n">>
    /\ note_files[Unwrap(run.last.tw).uuid] = Some(<<"n">>)
    /\ \E j \in DOMAIN run.last.calls :
          /\ run.last.calls[j].kind = "update"
          /\ Unwrap(run.last.calls[j].body).notes = <<"n">>

\* The last step of the run issued a scoring call in direction "down"
LastStepScoredDown ==
    /\ pc \in {"push_local", "pair", "done", "failed"}
    /\ \E j \in DOMAIN run.last.calls :
          run.last.calls[j].kind = "score" /\ run.last.calls[j].direction = "down"

\* C37: a scoring call in direction "down" is issued only for a remote task
\* whose completed flag is true in the snapshot of the run
C37_ScoredDownOnlyIfCompleted ==
    LastStepScoredDown =>
        /\ IsSome(run.last.h)
        /\ Unwrap(run.last.h).completed

\* A scoring call in direction "down" is issued only for a remote task that
\* effective_status reads as Completed
C37_ScoredDownOnlyIfEffectivelyCompleted ==
    LastStepScoredDown =>
        /\ IsSome(run.last.h)
        /\ effective_status(Unwrap(run.last.h)) = "completed"

\* A daily that is not completed and not due today was scored down
C37_IdleDailyScoredDown ==
    /\ call.op = "runs"
    /\ LastStepScoredDown
    /\ Unwrap(run.last.h).task_type = "daily"
    /\ ~Unwrap(run.last.h).completed
    /\ ~Unwrap(run.last.h).is_due
    /\ Unwrap(run.last.tw).status = "pending"

-----------------------------------------------------------------------------
(* Claims on tasks that are not synced, checked under Spec *)

\* The local tasks that are Deleted or Recurring and carry the id of a task
\* of the remote snapshot
IneligibleLinked ==
    { u \in Uuids :
        /\ IsSome(tw_db[u])
        /\ ~should_sync_to_habitica(Unwrap(tw_db[u]).status)
        /\ IsSome(Unwrap(tw_db[u]).habitica_uuid)
        /\ IsSome(h_tasks_map_get(run.h_tasks, Unwrap(Unwrap(tw_db[u]).habitica_uuid))) }

\* C38: after a run that returned Ok no Deleted or Recurring local task
\* references a task of the remote, and no such task paired with a remote
\* task is handled as NoChange
C38_NoIneligibleLeftLinked ==
    /\ pc = "done" => IneligibleLinked = {}
    /\ (AfterKeyStep /\ run.last.kind = "no_change") =>
           should_sync_to_habitica(Unwrap(run.last.tw).status)

\* After a run that returned Ok, a Deleted or Recurring local task that
\* still references a remote task and is the one the run paired with it is
\* equivalent to it
C38_IneligibleLeftOnlyIfEquivalent ==
    pc = "done" =>
        \A u \in IneligibleLinked :
            LET id == Unwrap(Unwrap(tw_db[u]).habitica_uuid)
            IN  Unwrap(tw_synced_map_get(run.tw_synced, id)).uuid = u =>
                    tasks_are_equivalent(Unwrap(tw_db[u]),
                                         Unwrap(h_tasks_map_get(run.h_tasks, id)))

\* A Deleted local task was found equal to its remote task and left in place
C38_DeletedLeftLinked ==
    /\ call.op = "none"
    /\ pc = "done"
    /\ run.last.kind = "no_change"
    /\ Unwrap(run.last.tw).status = "deleted"
    /\ Unwrap(run.last.tw).uuid \in IneligibleLinked

\* The same for a Recurring local task
C38_RecurringLeftLinked ==
    /\ call.op = "none"
    /\ pc = "done"
    /\ run.last.kind = "no_change"
    /\ Unwrap(run.last.tw).status = "recurring"
    /\ Unwrap(run.last.tw).uuid \in IneligibleLinked

-----------------------------------------------------------------------------
(* Claims on sequences of runs, checked under SpecRuns *)

\* The number of runs, the current one included, in which a create call for
\* the local task u was answered with success
RunsThatCreated(u) ==
    Cardinality({k \in DOMAIN call.log : u \in call.log[k].pushed})
    + (IF pc # "start" /\ u \in PushedIn(run) THEN 1 ELSE 0)

\* The local tasks that carry the remote id i
LocalsOf(i) ==
    { u \in Uuids : IsSome(tw_db[u]) /\ Unwrap(tw_db[u]).habitica_uuid = Some(i) }

\* C39: over a sequence of runs a local task gives rise to at most one
\* remote task, and a remote task is held by at most one local task
C39_CreatedAndImportedOnce ==
    call.op = "runs" =>
        /\ \A u \in Uuids : RunsThatCreated(u) <= 1
        /\ \A i \in DOMAIN habitica : Cardinality(LocalsOf(i)) <= 1

\* Over a sequence of runs a remote task is held by at most one local task
C39_ImportedOnce ==
    call.op = "runs" => \A i \in 1..(Len(habitica) + 1) : Cardinality(LocalsOf(i)) <= 1

\* A run failed in the import that follows a create call answered with
\* success, and the next run created a remote task for the same local task
C39_CreatedTwice ==
    /\ call.op = "runs"
    /\ Len(call.log) = 1
    /\ call.log[1].pc = "failed"
    /\ call.log[1].last.kind = "local_only"
    /\ 1 \in call.log[1].pushed
    /\ pc = "done"
    /\ 1 \in PushedIn(run)
    /\ IsSome(habitica[Len(habitica)])

-----------------------------------------------------------------------------
(* Claims on the stats a failing hook recorded, checked under SpecHooks *)

\* The modify hook worked with a stats cache: it found the file, or the
\* service answered its get_user_stats request
ModifyHadCache ==
    /\ call.op = "modify"
    /\ IsSome(call.before) \/ call.user = Some("ok")

\* The file holds the stats and the messages the answers of the hook carried
AnswersSaved ==
    /\ IsSome(stats_cache_file)
    /\ Unwrap(stats_cache_file).current = HookStats(call.answered)
    /\ LET drops == Unwrap(stats_cache_file).drops
           own == HookDrops(call.answered, Len(call.answered))
       IN  /\ Len(drops) >= Len(own)
           /\ SubSeq(drops, Len(drops) - Len(own) + 1, Len(drops)) = own

\* C40: the stats and the message of a remote call of the modify hook that
\* succeeded are in the stats-cache file after the hook, whether or not a
\* later call of the hook failed
C40_SucceededAnswerSaved ==
    (ModifyHadCache /\ IsSome(HookStats(call.answered))) => AnswersSaved

\* The same for a modify hook that returned Ok
C40_SavedWhenHookSucceeds ==
    (ModifyHadCache /\ call.ok /\ IsSome(HookStats(call.answered))) => AnswersSaved

\* The update of a modify hook was answered with stats and a message, its
\* scoring call failed, and the file is as the hook found it
C40_PayloadLost ==
    /\ ModifyHadCache
    /\ ~call.ok
    /\ Len(call.answered) = 2
    /\ call.answered[1].kind = "update"
    /\ call.answered[1].status = "ok"
    /\ call.answered[1].stats = Some(Stats1)
    /\ call.answered[1].drop = Some("d1")
    /\ call.answered[2].kind = "score"
    /\ call.answered[2].status = "http_error"
    /\ ~call.saved
    /\ stats_cache_file = call.before

====
